---- MODULE Spec2Model ----
(***************************************************************************)
(* safaribooks: the book assembly pipeline (Downloader.Run): the bounded   *)
(* chapter worker pool, the chapter transformer, the asset fetcher and the *)
(* EPUB packager.                                                          *)
(*                                                                         *)
(* Strings are modelled as sequences of tokens.  A token is an indivisible *)
(* piece of text ("cover", ".html", "/", "600w", ...); the inputs are      *)
(* tokenised so that every substring the code searches for or replaces is  *)
(* a whole token, hence strings.Contains / ReplaceAll / HasSuffix become   *)
(* token operations.                                                       *)
(***************************************************************************)
EXTENDS Integers, Sequences, FiniteSets, TLC

(***************************************************************************)
(* Program constants and model bounds                                      *)
(***************************************************************************)
maxWorkers == 5

\* chapters of the largest book of the worker-pool family (more than maxWorkers)
MaxChapters == 6

\* chapters of the books whose chapters may fail in every combination
MaxMixed == 2

(***************************************************************************)
(* strings (Go package strings, path) on token sequences                   *)
(***************************************************************************)
Empty == <<>>

Range(s) == {s[i] : i \in DOMAIN s}

Lower(t) ==
    CASE t = "Cover" -> "cover"
      [] t = "COVER" -> "cover"
      [] t = "Images" -> "images"
      [] t = ".JPG" -> ".jpg"
      [] t = ".PNG" -> ".png"
      [] OTHER -> t

ToLower(s) == [i \in DOMAIN s |-> Lower(s[i])]

Contains(s, t) == t \in Range(s)

ReplaceAll(s, old, new) == [i \in DOMAIN s |-> IF s[i] = old THEN new ELSE s[i]]

HasPrefix(s, t) == Len(s) > 0 /\ s[1] = t

HasSuffix(s, t) == Len(s) > 0 /\ s[Len(s)] = t

TrimSuffix(s, t) == IF HasSuffix(s, t) THEN SubSeq(s, 1, Len(s) - 1) ELSE s

TrimPrefix(s, t) == IF HasPrefix(s, t) THEN Tail(s) ELSE s

\* the positions of token t in s
Positions(s, t) == {i \in DOMAIN s : s[i] = t}

Max(S) == CHOOSE x \in S : \A y \in S : y <= x

Min(S) == CHOOSE x \in S : \A y \in S : x <= y

RECURSIVE StripTrailing(_, _)
StripTrailing(s, t) == IF HasSuffix(s, t) THEN StripTrailing(SubSeq(s, 1, Len(s) - 1), t) ELSE s

\* path.Base: "" gives ".", only slashes give "/", else the last element
PathBase(p) ==
    IF p = Empty THEN <<".">>
    ELSE LET q == StripTrailing(p, "/")
         IN  IF q = Empty THEN <<"/">>
             ELSE IF Positions(q, "/") = {} THEN q
             ELSE SubSeq(q, Max(Positions(q, "/")) + 1, Len(q))

\* the first position of "?" or "#" (strings.IndexAny), 0 when there is none
QueryStart(link) ==
    LET P == Positions(link, "?") \cup Positions(link, "#")
    IN  IF P = {} THEN 0 ELSE Min(P)

StripQueryFragment(link) ==
    IF QueryStart(link) > 0 THEN SubSeq(link, 1, QueryStart(link) - 1) ELSE link

BaseName(link) ==
    LET name == PathBase(StripQueryFragment(link))
    IN  IF name = <<".">> \/ name = <<"/">> THEN Empty ELSE name

(***************************************************************************)
(* URLs (Go package net/url as used by pkg/utils).  An absolute URL starts *)
(* with one token holding scheme and host.                                 *)
(***************************************************************************)
Site == "https://learning.oreilly.com"

CDN == "https://cdn.oreilly.com"

Origins == {Site, CDN}

\* url.Parse(raw).Path: the URL without scheme, host, query and fragment
URLPath(raw) ==
    LET p == StripQueryFragment(raw)
    IN  IF Len(p) > 0 /\ p[1] \in Origins THEN Tail(p) ELSE p

IsAbsoluteURL(raw) == raw # Empty /\ raw[1] \in Origins

FilenameFromURL(raw) ==
    IF raw = Empty THEN Empty
    ELSE LET name == PathBase(URLPath(raw))
         IN  IF name # <<".">> /\ name # <<"/">> THEN name
             ELSE StripTrailing(PathBase(StripQueryFragment(raw)), "/")

\* the directory of a base URL: everything up to and including its last "/"
BaseDir(base) ==
    IF Positions(base, "/") = {} THEN <<base[1], "/">>
    ELSE SubSeq(base, 1, Max(Positions(base, "/")))

ResolveURL(base, href) ==
    IF href = Empty THEN Empty
    ELSE IF HasPrefix(href, "//") THEN <<"https:">> \o href
    ELSE IF href[1] \in Origins THEN href
    ELSE IF base = Empty THEN href
    ELSE IF HasPrefix(href, "/") THEN <<base[1]>> \o href
    ELSE BaseDir(base) \o href

(***************************************************************************)
(* HTTP payloads.  A payload is what one GET returns: for a chapter, the   *)
(* HTML document (whether it holds div#sbo-rt-content, the hrefs of its    *)
(* link[rel=stylesheet] elements, the href/src attribute values of the     *)
(* content subtree, whether its text contains "/api/v2/"); for an image,   *)
(* the bytes.                                                              *)
(***************************************************************************)
NoDoc == [hasContent |-> FALSE, links |-> <<>>, attrs |-> <<>>, apiV2 |-> FALSE, bytes |-> ""]

Doc(links, attrs) ==
    [hasContent |-> TRUE, links |-> links, attrs |-> attrs, apiV2 |-> FALSE, bytes |-> "html"]

Bytes(b) == [NoDoc EXCEPT !.bytes = b]

\* models.Chapter.Content: first the content URL, after the download the body text
ContentURL(url) == [isURL |-> TRUE, url |-> url, body |-> NoDoc]

ContentBody(payload) == [isURL |-> FALSE, url |-> Empty, body |-> payload]

\* strings.Contains(chapter.Content, "/api/v2/")
ContentHasApiV2(content) ==
    IF content.isURL THEN Contains(content.url, "/api/v2/") ELSE content.body.apiV2

\* the upstream site: web is a set of [url, err, status, payload]; any other URL is 404
Served(url, payload) == [url |-> url, err |-> FALSE, status |-> 200, payload |-> payload]

Status(url, code) == [url |-> url, err |-> FALSE, status |-> code, payload |-> NoDoc]

Broken(url) == [url |-> url, err |-> TRUE, status |-> 0, payload |-> NoDoc]

\* Client.Get: a request error (transport failure, or a string that is no absolute
\* URL), else the site's answer
Get(web, url) ==
    IF ~IsAbsoluteURL(url) THEN Broken(url)
    ELSE IF \E e \in web : e.url = url THEN CHOOSE e \in web : e.url = url
    ELSE Status(url, 404)

\* Client.Get(chapter.Content): the body text of a downloaded chapter is no URL
GetContent(web, content) ==
    IF content.isURL THEN Get(web, content.url) ELSE Broken(Empty)

IsSuccess(resp) == resp.status >= 200 /\ resp.status < 300

(***************************************************************************)
(* internal/html: the chapter transformer                                  *)
(***************************************************************************)
\* a constructor that appends the extra ruleset when Kindle mode is on
NewParserKindleAppends(bookURL, kindleMode) ==
    [bookURL |-> bookURL,
     kindleMode |-> kindleMode,
     baseHTMLStyle |-> IF kindleMode THEN <<"baseStyleCSS", "kindleCSS">> ELSE <<"baseStyleCSS">>,
     cssIndex |-> <<>>,
     cssList |-> <<>>]

NewParser(bookURL, kindleMode) ==
    [bookURL |-> bookURL,
     kindleMode |-> kindleMode,
     baseHTMLStyle |-> IF ~kindleMode THEN <<"baseStyleCSS", "kindleCSS">> ELSE <<"baseStyleCSS">>,
     cssIndex |-> <<>>,
     cssList |-> <<>>]

\* a registration that never looks the URL up
ensureCSSAlwaysAppends(p, url) ==
    IF url = Empty THEN [idx |-> 0, p |-> p]
    ELSE [idx |-> Len(p.cssList),
          p |-> [p EXCEPT !.cssIndex = (url :> Len(p.cssList)) @@ @,
                          !.cssList = Append(@, url)]]

\* returns the index and the parser after the call
ensureCSS(p, url) ==
    IF url = Empty THEN [idx |-> 0, p |-> p]
    ELSE IF url \in DOMAIN p.cssIndex THEN [idx |-> p.cssIndex[url], p |-> p]
    ELSE [idx |-> Len(p.cssList),
          p |-> [p EXCEPT !.cssIndex = (url :> Len(p.cssList)) @@ @,
                          !.cssList = Append(@, url)]]

RECURSIVE RegisterAll(_, _, _)
RegisterAll(p, urls, acc) ==
    IF urls = <<>> THEN [p |-> p, css |-> acc]
    ELSE LET r == ensureCSS(p, Head(urls))
         IN  RegisterAll(r.p, Tail(urls), Append(acc, r.idx))

\* fmt.Sprintf("Styles/Style%02d.css", idx)
Pad2(idx) == IF idx < 10 THEN <<"0", ToString(idx)>> ELSE <<ToString(idx)>>

StyleHref(idx) == <<"Styles", "/", "Style">> \o Pad2(idx) \o <<".css">>

NonEmpty(s) == s # Empty

\* the absolute stylesheet URLs ParseChapter registers, in registration order
SheetURLs(p, chapter, doc) ==
    [k \in DOMAIN SelectSeq(chapter.Stylesheets, NonEmpty) |->
        ResolveURL(chapter.AssetBaseURL, SelectSeq(chapter.Stylesheets, NonEmpty)[k])]
    \o [k \in DOMAIN SelectSeq(chapter.SiteStyles, NonEmpty) |->
        ResolveURL(chapter.AssetBaseURL, SelectSeq(chapter.SiteStyles, NonEmpty)[k])]
    \o [k \in DOMAIN doc.links |-> ResolveURL(p.bookURL, doc.links[k])]

ImageExts == {".jpg", ".jpeg", ".png", ".gif", ".webp", ".svg"}

isImageLink(raw) == Len(raw) > 0 /\ Lower(raw[Len(raw)]) \in ImageExts

RECURSIVE TrimLeft(_)
TrimLeft(s) == IF HasPrefix(s, " ") THEN TrimLeft(Tail(s)) ELSE s

TrimSpace(s) == StripTrailing(TrimLeft(s), " ")

linkReplace(raw) ==
    LET link == TrimSpace(raw)
        lower == ToLower(link)
        name == IF BaseName(link) = Empty THEN FilenameFromURL(link) ELSE BaseName(link)
    IN  IF link = Empty \/ HasPrefix(link, "mailto:") THEN link
        ELSE IF ~IsAbsoluteURL(link)
             THEN IF \/ Contains(lower, "cover")
                     \/ Contains(lower, "images")
                     \/ Contains(lower, "graphics")
                     \/ isImageLink(link)
                  THEN IF name = Empty THEN link ELSE <<"Images", "/">> \o name
                  ELSE ReplaceAll(link, ".html", ".xhtml")
             ELSE link

NoPage == [css |-> <<>>, attrs |-> <<>>, style |-> <<>>]

\* the page ParseChapter emits: the stylesheet links of its head, the rewritten
\* attribute values of its body, the base style; err is "" on success
ParseChapter(p, chapter, isFirst) ==
    LET doc == chapter.Content.body
        r == RegisterAll(p, SheetURLs(p, chapter, doc), <<>>)
    IN  IF ~doc.hasContent THEN [err |-> "parse", page |-> NoPage]
        ELSE [err |-> "",
              page |-> [css |-> [k \in DOMAIN r.css |-> StyleHref(r.css[k])],
                        attrs |-> [k \in DOMAIN doc.attrs |-> linkReplace(doc.attrs[k])],
                        style |-> p.baseHTMLStyle]]

(***************************************************************************)
(* The inputs of a run: a book (what GetBookInfo and GetBookChapters       *)
(* return for it) and the upstream site.                                   *)
(***************************************************************************)
AssetBase == <<Site, "/", "library", "/", "view", "/">>

Chapter(title, filename, url, images, sheets) ==
    [Title |-> title, Filename |-> filename, Content |-> ContentURL(url),
     AssetBaseURL |-> AssetBase, Images |-> images, Stylesheets |-> sheets,
     SiteStyles |-> <<>>]

ChapterURL(name) == <<Site, "/", "chapter-content", "/">> \o name

PlainName(k) == <<"ch", ToString(k), ".html">>

PlainChapter(k) == Chapter(<<"Chapter", ToString(k)>>, PlainName(k), ChapterURL(PlainName(k)), <<>>, <<>>)

Book(cover, chs, web) ==
    [bookID |-> "9781", Title |-> <<"B", "o", "o", "k">>, Cover |-> cover, kindleMode |-> FALSE,
     chapters |-> chs, web |-> web]

CoverURL == <<CDN, "/", "covers", "/", "200w", "/", "9781", ".jpg">>

CoverURL600 == ReplaceAll(CoverURL, "200w", "600w")

\* what the site answers for the content URL of a chapter, by kind
Answer(url, kind) ==
    CASE kind = "ok" -> Served(url, Doc(<<>>, <<>>))
      [] kind = "status" -> Status(url, 404)
      [] kind = "nodiv" -> Served(url, [Doc(<<>>, <<>>) EXCEPT !.hasContent = FALSE])
      [] OTHER -> Broken(url)

AnswerKinds == {"ok", "status", "nodiv", "err"}

\* the worker-pool family: n plain chapters that all download, a cover on the CDN
PoolBook(n) ==
    Book(CoverURL,
         [k \in 1..n |-> PlainChapter(k)],
         {Answer(ChapterURL(PlainName(k)), "ok") : k \in 1..n} \cup {Served(CoverURL600, Bytes("cover600"))})

\* the failure family: every chapter answers in one of the AnswerKinds
MixedBook(kinds) ==
    Book(Empty,
         [k \in DOMAIN kinds |-> PlainChapter(k)],
         {Answer(ChapterURL(PlainName(k)), kinds[k]) : k \in DOMAIN kinds})

StyleX == <<CDN, "/", "css", "/", "x", ".css">>

StyleY == <<"css", "/", "y", ".css">>

StyleZ == <<"/", "static", "/", "z", ".css">>

\* two chapters that share stylesheets, the second one listing one more first
StyleBook ==
    Book(Empty,
         <<Chapter(<<"Chapter", "1">>, PlainName(1), ChapterURL(PlainName(1)), <<>>, <<StyleX>>),
           Chapter(<<"Chapter", "2">>, PlainName(2), ChapterURL(PlainName(2)), <<>>, <<StyleY, Empty, StyleX>>)>>,
         {Served(ChapterURL(PlainName(1)), Doc(<<StyleZ>>, <<>>)),
          Served(ChapterURL(PlainName(2)), Doc(<<>>, <<>>)),
          Served(StyleX, Bytes("x")),
          Served(ResolveURL(AssetBase, StyleY), Bytes("y")),
          Served(ResolveURL(<<Site>>, StyleZ), Bytes("z"))})

Fig1 == <<"images", "/", "fig1", ".png">>

Fig2 == <<"images", "/", "fig2", ".png">>

Fig3 == <<"graphics", "/", "fig3", ".PNG", "?", "v=2">>

\* two chapters with images: fig1 is shared, fig2 is missing upstream, fig3 is
\* linked from the page but not in the image list
ImageBook ==
    Book(Empty,
         <<Chapter(<<"Chapter", "1">>, PlainName(1), ChapterURL(PlainName(1)), <<Fig2, Fig1>>, <<>>),
           Chapter(<<"Chapter", "2">>, PlainName(2), ChapterURL(PlainName(2)), <<Empty, Fig1>>, <<>>)>>,
         {Served(ChapterURL(PlainName(1)),
                 Doc(<<>>, <<Fig1, Fig2, PlainName(2), <<"mailto:", "a@b">>, <<CDN, "/", "a", ".png">>>>)),
          Served(ChapterURL(PlainName(2)), Doc(<<>>, <<<<" ", "images", "/", "fig1", ".png">>, Fig3>>)),
          Served(ResolveURL(AssetBase, Fig1), Bytes("fig1"))})

CoverName == <<"cover", ".html">>

\* a book with a cover URL whose first chapter is the file cover.html
CoverPageBook ==
    Book(CoverURL,
         <<Chapter(<<"Cover">>, CoverName, ChapterURL(CoverName), <<>>, <<>>),
           PlainChapter(1)>>,
         {Answer(ChapterURL(CoverName), "ok"), Answer(ChapterURL(PlainName(1)), "ok"),
          Served(CoverURL, Bytes("cover200"))})

Front == <<"images", "/", "front", ".jpg">>

TitlePage == <<"titlepage", ".html">>

\* a book without a cover URL whose first chapter is titled Cover and has an image
CoverChapterBook ==
    Book(Empty,
         <<Chapter(<<"Cover">>, TitlePage, ChapterURL(TitlePage), <<Front>>, <<>>),
           PlainChapter(1)>>,
         {Served(ChapterURL(TitlePage), Doc(<<>>, <<Front>>)),
          Answer(ChapterURL(PlainName(1)), "ok"),
          Served(ResolveURL(AssetBase, Front), Bytes("front"))})

\* a chapter whose filename names a directory that does not exist: its write fails
SubdirBook ==
    Book(Empty,
         <<PlainChapter(1),
           Chapter(<<"Chapter", "2">>, <<"part", "/", "ch2", ".html">>, ChapterURL(PlainName(2)), <<>>, <<>>)>>,
         {Answer(ChapterURL(PlainName(1)), "ok"), Answer(ChapterURL(PlainName(2)), "ok")})

Fig1Other == <<"figures", "/", "fig1", ".png">>

\* two chapters whose images have different URLs with the same file name, the
\* site serving different bytes for them
SameNameBook ==
    Book(Empty,
         <<Chapter(<<"Chapter", "1">>, PlainName(1), ChapterURL(PlainName(1)), <<Fig1>>, <<>>),
           Chapter(<<"Chapter", "2">>, PlainName(2), ChapterURL(PlainName(2)), <<Fig1Other>>, <<>>)>>,
         {Answer(ChapterURL(PlainName(1)), "ok"), Answer(ChapterURL(PlainName(2)), "ok"),
          Served(ResolveURL(AssetBase, Fig1), Bytes("fig1")),
          Served(ResolveURL(AssetBase, Fig1Other), Bytes("fig1other"))})

\* two chapters of the index with the same filename
DupBook ==
    Book(Empty,
         <<PlainChapter(1),
           Chapter(<<"Chapter", "2">>, PlainName(1), ChapterURL(PlainName(2)), <<>>, <<>>)>>,
         {Answer(ChapterURL(PlainName(1)), "ok"), Answer(ChapterURL(PlainName(2)), "ok")})

\* the index of the first ":" above which EscapeDirname cuts the name
ColonLimit == 15

\* the longest tail of a title after its filling
MaxTail == 2

TitleChars == {":", ",", "/", "b"}

Fill(n) == [k \in 1..n |-> "a"]

\* titles: a filling that puts the tail at, or just past, the cut index, and a tail
Titles ==
    {Fill(n) \o t : n \in {0, ColonLimit, ColonLimit + 1},
                    t \in UNION {[1..m -> TitleChars] : m \in 0..MaxTail}}

\* the title family: a book of one chapter with the title t
TitledBook(t) == [MixedBook(<<"ok">>) EXCEPT !.Title = t]

\* cover URLs: one size token (CoverURL), two size tokens of which the later one
\* in the URL is the earlier one of the table, a token that occurs twice, the
\* target size itself, no token, and no token with a trailing slash
CoverLargePng == <<CDN, "/", "covers", "/", "large", "/", "200w", "/", "9781", ".png">>

CoverTwice == <<CDN, "/", "200w", "/", "covers", "/", "200w", ".jpg">>

CoverPlain == <<CDN, "/", "covers", "/", "9781", ".jpg">>

CoverSlash == <<CDN, "/", "covers", "/", "9781", "/">>

CoverURLs == {CoverURL, CoverLargePng, CoverTwice, CoverURL600, CoverPlain, CoverSlash}

\* the URLs the site may have a cover image at
CoverSites(url) ==
    {url, ReplaceAll(url, "200w", "600w"), url \o <<"/", "600w", "/">>,
     TrimSuffix(url, "/") \o <<"/", "600w", "/">>}

\* a one-chapter book with cover URL url, the site having images at served
CoverBook(url, served) ==
    Book(url, <<PlainChapter(1)>>,
         {Answer(ChapterURL(PlainName(1)), "ok")} \cup {Served(u, Bytes(u)) : u \in served})

CoverBooks == UNION {{CoverBook(url, served) : served \in SUBSET CoverSites(url)} : url \in CoverURLs}

Anchor == <<"#", "cover">>

\* the attribute values of the chapter of LinkBook: empty and blank values, a
\* mailto link, absolute URLs, relative links to pages and to images, links
\* that are image-like by a keyword or by their extension, links whose path is
\* empty or "/"
LinkSamples ==
    <<Empty,
      <<" ", " ">>,
      <<"mailto:", "cover", "@", "b">>,
      <<CDN, "/", "images", "/", "a", ".png">>,
      <<Site, "/", "ch", "2", ".html">>,
      <<" ", "ch", "2", ".html", " ">>,
      <<"ch", "1", ".html", "#", "s", ".html">>,
      <<"images", "/", "fig1", ".png">>,
      <<"graphics", "/", "fig3", ".PNG", "?", "v=2">>,
      <<"Cover", ".html">>,
      <<"img", "/", "a", ".JPG">>,
      <<"img", "/", "a", ".png", "?", "v=2">>,
      <<"/", "?", "images">>,
      Anchor>>

\* one chapter without images whose page carries the LinkSamples
LinkBook ==
    Book(Empty,
         <<PlainChapter(1)>>,
         {Served(ChapterURL(PlainName(1)), Doc(<<>>, LinkSamples))})

\* the same book downloaded with the --kindle flag (cmd/main.go line 101)
Kindle(b) == [b EXCEPT !.kindleMode = TRUE]

KindleBooks == {Kindle(b) : b \in {StyleBook, DupBook, SubdirBook}}

Books ==
    {PoolBook(n) : n \in {0, MaxChapters}}
    \cup {MixedBook(kinds) : kinds \in [1..MaxMixed -> AnswerKinds]}
    \cup {StyleBook, ImageBook, CoverPageBook, CoverChapterBook, SubdirBook, DupBook, SameNameBook, LinkBook}
    \cup {TitledBook(t) : t \in Titles}
    \cup CoverBooks
    \cup KindleBooks

(***************************************************************************)
(* pkg/utils: LoadCookies.  The content of the cookies file is a JSON      *)
(* value: its type, the text of a string, the elements of an array, the    *)
(* members of an object (one value per key).                               *)
(***************************************************************************)
JSON(t, s, elems, members) == [t |-> t, s |-> s, elems |-> elems, members |-> members]

JString(s) == JSON("string", s, <<>>, <<>>)

JArray(elems) == JSON("array", "", elems, <<>>)

JObject(members) == JSON("object", "", <<>>, members)

JNull == JSON("null", "", <<>>, <<>>)

JTrue == JSON("bool", "true", <<>>, <<>>)

JNumber == JSON("number", "1", <<>>, <<>>)

\* bytes that are not JSON ("invalid json")
NotJSON == JSON("invalid", "", <<>>, <<>>)

\* no file at the path: os.ReadFile fails
NoFile == JSON("missing", "", <<>>, <<>>)

\* the string fields and the bool fields of J2TeamCookie and of BrowserCookie
J2TeamStrings == {"name", "value", "domain", "path", "sameSite"}

J2TeamBools == {"secure", "httpOnly"}

BrowserStrings == J2TeamStrings \cup {"storeId"}

BrowserBools == J2TeamBools \cup {"hostOnly", "session"}

\* encoding/json stores a value of the field's type, leaves the field alone for
\* null, and reports any other type
Fits(j, t) == j.t \in {t, "null"}

StringOf(j) == IF j.t = "string" THEN j.s ELSE ""

Field(j, key) == IF j.t = "object" /\ key \in DOMAIN j.members THEN StringOf(j.members[key]) ELSE ""

\* a cookie object decodes without error: unknown keys are skipped
CookieFits(j, strs, bools) ==
    \/ j.t = "null"
    \/ /\ j.t = "object"
       /\ \A key \in DOMAIN j.members :
            /\ key \in strs => Fits(j.members[key], "string")
            /\ key \in bools => Fits(j.members[key], "bool")

ArrayFits(j, strs, bools) ==
    \/ j.t = "null"
    \/ j.t = "array" /\ \A k \in DOMAIN j.elems : CookieFits(j.elems[k], strs, bools)

\* the Name and Value of the decoded cookies, in the order of the array
CookiesOf(j) ==
    IF j.t # "array" THEN <<>>
    ELSE [k \in DOMAIN j.elems |-> [Name |-> Field(j.elems[k], "name"), Value |-> Field(j.elems[k], "value")]]

\* json.Unmarshal(data, &j2team)
UnmarshalJ2Team(data) ==
    LET list == IF data.t = "object" /\ "cookies" \in DOMAIN data.members
                THEN data.members["cookies"] ELSE JNull
        url == IF data.t = "object" /\ "url" \in DOMAIN data.members
               THEN data.members["url"] ELSE JNull
    IN  [err |-> ~(/\ data.t \in {"object", "null"}
                   /\ Fits(url, "string")
                   /\ ArrayFits(list, J2TeamStrings, J2TeamBools)),
         Cookies |-> CookiesOf(list)]

\* json.Unmarshal(data, &browserCookies)
UnmarshalBrowser(data) ==
    [err |-> ~ArrayFits(data, BrowserStrings, BrowserBools), Cookies |-> CookiesOf(data)]

\* json.Unmarshal(data, &cookies) for a map[string]string
UnmarshalMap(data) ==
    [err |-> ~(\/ data.t = "null"
               \/ data.t = "object" /\ \A key \in DOMAIN data.members : Fits(data.members[key], "string")),
     cookies |-> IF data.t = "object"
                 THEN [key \in DOMAIN data.members |-> StringOf(data.members[key])]
                 ELSE <<>>]

\* cookies[cookie.Name] = cookie.Value for each cookie in turn: the last one of a
\* name stays
ToMap(list) ==
    [n \in {list[k].Name : k \in DOMAIN list} |->
        list[Max({k \in DOMAIN list : list[k].Name = n})].Value]

\* what LoadCookies returns: the map (<<>> for nil) and the error ("" for nil)
Loaded(map) == [cookies |-> map, err |-> ""]

LoadError(kind) == [cookies |-> <<>>, err |-> kind]

\* a LoadCookies without the check for an empty map
LoadCookiesAcceptsEmpty(data) ==
    IF data.t = "missing" THEN LoadError("read")
    ELSE IF ~UnmarshalJ2Team(data).err /\ Len(UnmarshalJ2Team(data).Cookies) > 0
         THEN Loaded(ToMap(UnmarshalJ2Team(data).Cookies))
    ELSE IF ~UnmarshalBrowser(data).err /\ Len(UnmarshalBrowser(data).Cookies) > 0
         THEN Loaded(ToMap(UnmarshalBrowser(data).Cookies))
    ELSE IF UnmarshalMap(data).err THEN LoadError("unsupported")
    ELSE Loaded(UnmarshalMap(data).cookies)

LoadCookies(data) ==
    IF data.t = "missing" THEN LoadError("read")
    ELSE IF ~UnmarshalJ2Team(data).err /\ Len(UnmarshalJ2Team(data).Cookies) > 0
         THEN Loaded(ToMap(UnmarshalJ2Team(data).Cookies))
    ELSE IF ~UnmarshalBrowser(data).err /\ Len(UnmarshalBrowser(data).Cookies) > 0
         THEN Loaded(ToMap(UnmarshalBrowser(data).Cookies))
    ELSE IF UnmarshalMap(data).err THEN LoadError("unsupported")
    ELSE IF DOMAIN UnmarshalMap(data).cookies = {} THEN LoadError("empty")
    ELSE Loaded(UnmarshalMap(data).cookies)

\* LoadCookies has not been called
NotLoaded == LoadError("pending")

\* the cookies files: at most MaxCookies cookies in an array
MaxCookies == 2

CookieNames == {"orm-jwt", "orm-rt"}

CookieValues == {"v1", "v2"}

JCookie(n, v) ==
    JObject([key \in {"name", "value", "domain", "secure", "expirationDate"} |->
                CASE key = "name" -> JString(n)
                  [] key = "value" -> JString(v)
                  [] key = "domain" -> JString(".oreilly.com")
                  [] key = "secure" -> JTrue
                  [] OTHER -> JNumber])

ExportedCookies == {JCookie(n, v) : n \in CookieNames, v \in CookieValues}

\* a cookie object whose secure flag is a string
OddCookie == JObject([key \in {"name", "value", "secure"} |-> JString("yes")])

ExportedLists == UNION {[1..n -> ExportedCookies] : n \in 0..MaxCookies}

CookieLists == UNION {[1..n -> ExportedCookies \cup {OddCookie}] : n \in 0..MaxCookies}

J2TeamFile(list) ==
    JObject([key \in {"url", "cookies"} |-> IF key = "url" THEN JString(Site) ELSE JArray(list)])

\* J2Team exports with a non-empty cookies array
J2TeamExports == {J2TeamFile(list) : list \in ExportedLists \ {<<>>}}

J2TeamFiles == {J2TeamFile(list) : list \in CookieLists}

BrowserFiles == {JArray(list) : list \in CookieLists}

\* flat objects of strings; url and cookies are member names of the J2Team format
FlatKeys == CookieNames \cup {"url", "cookies"}

FlatFiles ==
    UNION {{JObject([key \in S |-> JString(f[key])]) : f \in [S -> CookieValues]} : S \in SUBSET FlatKeys}

OtherFiles ==
    {NotJSON, NoFile, JNull, JString("orm-jwt"), JNumber,
     JObject([key \in {"orm-jwt"} |-> JNumber]),
     JObject([key \in {"cookies"} |-> JNull]),
     JObject([key \in {"url", "cookies"} |-> IF key = "url" THEN JNumber ELSE JArray(<<JCookie("orm-jwt", "v1")>>)]),
     JArray(<<JNull>>),
     JObject([key \in {"cookies", "orm-jwt"} |->
                 IF key = "cookies" THEN JArray(<<JCookie("orm-rt", "v2")>>) ELSE JString("v1")])}

CookieFiles == J2TeamFiles \cup BrowserFiles \cup FlatFiles \cup OtherFiles

(***************************************************************************)
(* State                                                                   *)
(***************************************************************************)
VARIABLES
    book,          \* the input of the run (never changes)
    profile,       \* the answer NewClient got from the profile endpoint
    apiLog,        \* the API URLs requested so far, in order
    bookPath,      \* the name of the book directory under the books directory
    chapters,      \* the chapter slice of Run; workers and packager mutate its elements
    dirs,          \* the directories on disk, as paths under the book root
    files,         \* the files on disk: path under the book root -> content
    mainpc,        \* where Run is
    ret,           \* the error Run returns (NoError: nil)
    pc,            \* where each chapter goroutine is
    sem,           \* the number of permits taken from the semaphore channel
    wg,            \* the WaitGroup counter
    firstError,    \* the first-error slot of downloadChapters
    err,           \* the error downloadChapter returned to goroutine i ("": nil)
    imgIdx,        \* the position of goroutine i in the image loop of downloadAssets
    pages,         \* the page ParseChapter emitted for chapter i
    fetches,       \* how many times downloadChapter requested the content of chapter i
    requested,     \* the asset URLs requested so far
    coverFilename, \* the cover file name generateEPUB resolved
    coverLog,      \* the cover variant URLs generateEPUB requested, in order
    archive,       \* the entries of the zip archive, in the order written
    outOfOrder,    \* whether some goroutine finished before one of a lower index
    cookiesFile,   \* LoadCookies on its own: the content of the cookies file
    cookies,       \* LoadCookies on its own: the map and the error it returned
    parser,        \* ensureCSS on its own: the Parser the calls act on
    calls          \* ensureCSS on its own: the calls made, each with the index returned

vars == <<book, profile, apiLog, bookPath, chapters, dirs, files, mainpc, ret, pc, sem, wg, firstError, err,
          imgIdx, pages, fetches, requested, coverFilename, coverLog, archive, outOfOrder,
          cookiesFile, cookies, parser, calls>>

\* the state of the functions specified on their own; a run of the program leaves it alone
libvars == <<cookiesFile, cookies, parser, calls>>

\* their state where they are not under study: nothing read, nothing registered
LibIdle ==
    /\ cookiesFile = NoFile
    /\ cookies = NotLoaded
    /\ parser = NewParser(<<Site>>, FALSE)
    /\ calls = <<>>

\* the answers of the profile endpoint: a request error, or a status and whether
\* the body contains user_type":"Expired"
NoProbe == [err |-> FALSE, status |-> 0, expired |-> FALSE]

ProbeStatuses == {200, 204, 401, 403, 500}

Probes ==
    {[err |-> TRUE, status |-> 0, expired |-> FALSE]}
    \cup {[err |-> FALSE, status |-> c, expired |-> e] : c \in ProbeStatuses, e \in BOOLEAN}

NoError == [chapter |-> 0, kind |-> ""]

Error(i, kind) == [chapter |-> i, kind |-> kind]

\* the goroutines downloadChapters started, one per chapter index
Workers == DOMAIN pc

Init ==
    /\ book \in Books
    /\ LibIdle
    /\ profile = NoProbe
    /\ apiLog = <<>>
    /\ bookPath = Empty
    /\ chapters = <<>>
    /\ dirs = {}
    /\ files = <<>>
    /\ mainpc = "client"
    /\ ret = NoError
    /\ pc = <<>>
    /\ sem = 0
    /\ wg = 0
    /\ firstError = NoError
    /\ err = <<>>
    /\ imgIdx = <<>>
    /\ pages = <<>>
    /\ fetches = <<>>
    /\ requested = {}
    /\ coverFilename = Empty
    /\ archive = <<>>
    /\ coverLog = <<>>
    /\ outOfOrder = FALSE

(***************************************************************************)
(* The file system under the book root                                     *)
(***************************************************************************)
OEBPS == <<"OEBPS">>

ImagesDir == <<"OEBPS", "/", "Images">>

StylesDir == <<"OEBPS", "/", "Styles">>

MetaInf == <<"META-INF">>

\* filepath.Join of a directory and a name
Join(dir, name) ==
    IF name = Empty THEN dir
    ELSE IF dir = Empty THEN name
    ELSE dir \o <<"/">> \o name

Parent(path) ==
    IF Positions(path, "/") = {} THEN Empty
    ELSE SubSeq(path, 1, Max(Positions(path, "/")) - 1)

\* os.WriteFile succeeds when the parent directory exists and the path is no directory
CanWrite(ds, path) == path # Empty /\ Parent(path) \in ds /\ path \notin ds

WriteFile(fs, path, content) == (path :> content) @@ fs

FileExists(path) == path \in DOMAIN files \/ path \in dirs

File(kind, data) == [kind |-> kind, data |-> data]

\* os.ReadDir: the names of the files directly in dir, in one fixed order
RECURSIVE Listing(_)
Listing(S) ==
    IF S = {} THEN <<>>
    ELSE LET x == CHOOSE y \in S : TRUE IN <<x>> \o Listing(S \ {x})

ReadDir(fs, dir) ==
    Listing({SubSeq(p, Len(dir) + 2, Len(p)) : p \in {q \in DOMAIN fs : Parent(q) = dir}})

(***************************************************************************)
(* Downloader.Run up to the worker pool                                    *)
(***************************************************************************)
Returns(e) == mainpc' = "returned" /\ ret' = e

profileURL == <<Site, "/", "profile", "/">>

BookInfoURL == <<Site, "/api/v1/", "book", "/", book.bookID, "/">>

ChapterPageURL(n) == BookInfoURL \o <<"chapter", "/", "?", "page=", ToString(n)>>

\* a check of the status alone
ensureAuthenticatedByStatus(probe) ==
    IF probe.err THEN "request"
    ELSE IF probe.status # 200 THEN "status"
    ELSE ""

\* ensureAuthenticated: nil exactly for a 200 answer without the marker
ensureAuthenticated(probe) ==
    IF probe.err THEN "request"
    ELSE IF probe.status # 200 THEN "status"
    ELSE IF probe.expired THEN "expired"
    ELSE ""

\* NewClient (called by NewDownloader before Run): the cookies are loaded, then the
\* profile endpoint is probed; any failure gives an error and no client
NewClient ==
    /\ mainpc = "client"
    /\ \E loaded \in BOOLEAN : \E probe \in Probes :
         IF ~loaded
         THEN Returns(Error(0, "cookies")) /\ UNCHANGED <<profile, apiLog>>
         ELSE /\ profile' = probe
              /\ apiLog' = Append(apiLog, profileURL)
              /\ IF ensureAuthenticated(probe) # ""
                 THEN Returns(Error(0, "auth"))
                 ELSE mainpc' = "info" /\ ret' = ret
    /\ UNCHANGED <<libvars, book, coverLog, bookPath, chapters, dirs, files, pc, sem, wg, firstError, err, imgIdx,
                   pages, fetches, requested, coverFilename, archive, outOfOrder>>

RunGetBookInfo ==
    /\ mainpc = "info"
    /\ \E ok \in BOOLEAN :
         IF ok THEN mainpc' = "chapters" /\ ret' = ret
         ELSE Returns(Error(0, "info"))
    /\ apiLog' = Append(apiLog, BookInfoURL)
    /\ UNCHANGED <<libvars, book, coverLog, profile, bookPath, chapters, dirs, files, pc, sem, wg, firstError, err, imgIdx,
                   pages, fetches, requested, coverFilename, archive, outOfOrder>>

\* a Run that goes on to the layout after GetBookChapters failed
RunGetBookChaptersGoesOn ==
    /\ mainpc = "chapters"
    /\ \E ok \in BOOLEAN :
         /\ chapters' = IF ok THEN book.chapters ELSE chapters
         /\ mainpc' = "mkdir"
         /\ ret' = ret
    /\ apiLog' = Append(apiLog, ChapterPageURL(1))
    /\ UNCHANGED <<libvars, book, coverLog, profile, bookPath, dirs, files, pc, sem, wg, firstError, err, imgIdx,
                   pages, fetches, requested, coverFilename, archive, outOfOrder>>

\* GetBookChapters fails on a request error, a bad answer or an empty page
RunGetBookChapters ==
    /\ mainpc = "chapters"
    /\ \E ok \in BOOLEAN :
         IF ok /\ Len(book.chapters) > 0
         THEN chapters' = book.chapters /\ mainpc' = "mkdir" /\ ret' = ret
         ELSE chapters' = chapters /\ Returns(Error(0, "chapters"))
    /\ apiLog' = Append(apiLog, ChapterPageURL(1))
    /\ UNCHANGED <<libvars, book, coverLog, profile, bookPath, dirs, files, pc, sem, wg, firstError, err, imgIdx,
                   pages, fetches, requested, coverFilename, archive, outOfOrder>>

\* the characters EscapeDirname replaces by "_"
Forbidden == {"~", "#", "%", "&", "*", "{", "}", "\\", "<", ">", "?", "/", "`", "'", "\"", "|", "+", ":"}

\* strings.Index on a string of characters: the 0-based index of the first c, -1 if none
Index(name, c) == IF Positions(name, c) = {} THEN 0 - 1 ELSE Min(Positions(name, c)) - 1

\* a replacer that turns a slash into a colon
EscapeDirnameSlashToColon(name) ==
    LET cut == IF Index(name, ":") > ColonLimit THEN SubSeq(name, 1, Index(name, ":")) ELSE name
    IN  [k \in DOMAIN cut |-> IF cut[k] = "/" THEN ":"
                              ELSE IF cut[k] \in Forbidden THEN "_" ELSE cut[k]]

\* utils.EscapeDirname, on a string of characters
EscapeDirname(name) ==
    LET cut == IF Index(name, ":") > ColonLimit THEN SubSeq(name, 1, Index(name, ":")) ELSE name
    IN  [k \in DOMAIN cut |-> IF cut[k] \in Forbidden THEN "_" ELSE cut[k]]

\* a name that keeps what follows the first ","
WholeTitle(title) == title

\* strings.Split(title, ",")[0]
BeforeComma(title) ==
    IF Index(title, ",") < 0 THEN title ELSE SubSeq(title, 1, Index(title, ","))

\* the directory name createBookDirectory builds
DirName(title, bookID) ==
    LET esc == EscapeDirname(title)
    IN  BeforeComma(IF esc = Empty THEN <<bookID>> ELSE esc) \o <<" (", bookID, ")">>

createBookDirectory ==
    /\ mainpc = "mkdir"
    /\ \E ok \in BOOLEAN :
         IF ok
         THEN /\ dirs' = dirs \cup {Empty, OEBPS, StylesDir, ImagesDir}
              /\ bookPath' = DirName(book.Title, book.bookID)
              /\ mainpc' = "download"
              /\ ret' = ret
         ELSE dirs' = dirs /\ bookPath' = bookPath /\ Returns(Error(0, "mkdir"))
    /\ UNCHANGED <<libvars, book, coverLog, profile, apiLog, chapters, files, pc, sem, wg, firstError, err, imgIdx,
                   pages, fetches, requested, coverFilename, archive, outOfOrder>>

(***************************************************************************)
(* downloadChapters: one goroutine per chapter behind a semaphore          *)
(***************************************************************************)
\* the loop of downloadChapters: wg.Add(1) and go func(i) for every chapter
downloadChaptersStart ==
    /\ mainpc = "download"
    /\ mainpc' = "wait"
    /\ wg' = Len(chapters)
    /\ pc' = [i \in DOMAIN chapters |-> "acquire"]
    /\ err' = [i \in DOMAIN chapters |-> ""]
    /\ imgIdx' = [i \in DOMAIN chapters |-> 1]
    /\ pages' = [i \in DOMAIN chapters |-> NoPage]
    /\ fetches' = [i \in DOMAIN chapters |-> 0]
    /\ UNCHANGED <<libvars, book, coverLog, profile, apiLog, bookPath, chapters, dirs, files, ret, sem, firstError, requested,
                   coverFilename, archive, outOfOrder>>

\* a semaphore that admits every sender
CanAcquireAlways == TRUE

\* sem <- struct{}{} on a channel of capacity maxWorkers
CanAcquire == sem < maxWorkers

Acquire(i) ==
    /\ pc[i] = "acquire"
    /\ CanAcquire
    /\ sem' = sem + 1
    /\ pc' = [pc EXCEPT ![i] = "fetch"]
    /\ UNCHANGED <<libvars, book, coverLog, profile, apiLog, bookPath, chapters, dirs, files, mainpc, ret, wg, firstError, err, imgIdx,
                   pages, fetches, requested, coverFilename, archive, outOfOrder>>

Fails(i, kind) == err' = [err EXCEPT ![i] = kind] /\ pc' = [pc EXCEPT ![i] = "record"]

\* downloadChapter, first part: request the content, keep the body as the content
FetchChapter(i) ==
    /\ pc[i] = "fetch"
    /\ fetches' = [fetches EXCEPT ![i] = @ + 1]
    /\ LET resp == GetContent(book.web, chapters[i].Content)
       IN  IF resp.err THEN Fails(i, "download") /\ chapters' = chapters
           ELSE IF ~IsSuccess(resp) THEN Fails(i, "status") /\ chapters' = chapters
           ELSE /\ chapters' = [chapters EXCEPT ![i].Content = ContentBody(resp.payload)]
                /\ pc' = [pc EXCEPT ![i] = "parse"]
                /\ err' = err
    /\ UNCHANGED <<libvars, book, coverLog, profile, apiLog, bookPath, dirs, files, mainpc, ret, sem, wg, firstError, imgIdx,
                   pages, requested, coverFilename, archive, outOfOrder>>

\* the parser of one goroutine (created per goroutine, line 134)
WorkerParser(i) == NewParser(<<Site>>, book.kindleMode)

\* downloadChapter, second part: transform, rename, write the chapter file; the
\* image loop follows unless the chapter has no images
ParseAndWrite(i) ==
    /\ pc[i] = "parse"
    /\ LET r == ParseChapter(WorkerParser(i), chapters[i], i = 1)
           filename == ReplaceAll(chapters[i].Filename, ".html", ".xhtml")
           outputPath == Join(OEBPS, filename)
       IN  IF r.err # "" THEN Fails(i, "parse") /\ UNCHANGED <<chapters, files, pages>>
           ELSE /\ chapters' = [chapters EXCEPT ![i].Filename = filename]
                /\ IF ~CanWrite(dirs, outputPath) THEN Fails(i, "write") /\ UNCHANGED <<files, pages>>
                   ELSE /\ files' = WriteFile(files, outputPath, File("chapter", i))
                        /\ pages' = [pages EXCEPT ![i] = r.page]
                        /\ pc' = [pc EXCEPT ![i] = IF chapters[i].Images = <<>> THEN "release" ELSE "assets"]
                        /\ err' = err
    /\ UNCHANGED <<libvars, book, coverLog, profile, apiLog, bookPath, dirs, mainpc, ret, sem, wg, firstError, imgIdx,
                   fetches, requested, coverFilename, archive, outOfOrder>>

resolveImageURL(chapter, img) ==
    IF ContentHasApiV2(chapter.Content)
    THEN TrimSuffix(<<Site, "/api/v2/", "epubs", "/", "urn:orm:book:", book.bookID, "/", "files">>, "/")
         \o <<"/">> \o TrimPrefix(img, "/")
    ELSE ResolveURL(chapter.AssetBaseURL, img)

\* the image goroutine i is at, its resolved URL and its destination
ImageURL(i) == resolveImageURL(chapters[i], chapters[i].Images[imgIdx[i]])

ImagePath(i) == Join(ImagesDir, FilenameFromURL(ImageURL(i)))

\* downloadAssets, one turn of the loop up to the existence check of downloadFile:
\* an image without URL or filename, or whose file exists, is skipped
AssetNext(i) ==
    /\ pc[i] = "assets"
    /\ IF imgIdx[i] > Len(chapters[i].Images)
       THEN pc' = [pc EXCEPT ![i] = "release"] /\ imgIdx' = imgIdx
       ELSE IF \/ ImageURL(i) = Empty
               \/ FilenameFromURL(ImageURL(i)) = Empty
               \/ FileExists(ImagePath(i))
            THEN imgIdx' = [imgIdx EXCEPT ![i] = @ + 1] /\ pc' = pc
            ELSE pc' = [pc EXCEPT ![i] = "image"] /\ imgIdx' = imgIdx
    /\ UNCHANGED <<libvars, book, coverLog, profile, apiLog, bookPath, chapters, dirs, files, mainpc, ret, sem, wg, firstError, err,
                   pages, fetches, requested, coverFilename, archive, outOfOrder>>

\* a download that saves nothing
downloadFileDropped(fs, url, path) == fs

\* what downloadFile leaves on disk after the existence check: the body of a 2xx answer
downloadFile(fs, url, path) ==
    LET resp == Get(book.web, url)
    IN  IF resp.err \/ ~IsSuccess(resp) \/ ~CanWrite(dirs, path) THEN fs
        ELSE WriteFile(fs, path, File("image", resp.payload.bytes))

\* a download whose failure ends the chapter with an error
ImageFetchAborting(i) ==
    /\ pc[i] = "image"
    /\ requested' = requested \cup {ImageURL(i)}
    /\ files' = downloadFile(files, ImageURL(i), ImagePath(i))
    /\ IF ImagePath(i) \in DOMAIN files'
       THEN imgIdx' = [imgIdx EXCEPT ![i] = @ + 1] /\ pc' = [pc EXCEPT ![i] = "assets"] /\ err' = err
       ELSE imgIdx' = imgIdx /\ Fails(i, "image")
    /\ UNCHANGED <<libvars, book, coverLog, profile, apiLog, bookPath, chapters, dirs, mainpc, ret, sem, wg, firstError,
                   pages, fetches, coverFilename, archive, outOfOrder>>

ImageFetch(i) ==
    /\ pc[i] = "image"
    /\ requested' = requested \cup {ImageURL(i)}
    /\ files' = downloadFile(files, ImageURL(i), ImagePath(i))
    /\ imgIdx' = [imgIdx EXCEPT ![i] = @ + 1]
    /\ pc' = [pc EXCEPT ![i] = "assets"]
    /\ UNCHANGED <<libvars, book, coverLog, profile, apiLog, bookPath, chapters, dirs, mainpc, ret, sem, wg, firstError, err,
                   pages, fetches, coverFilename, archive, outOfOrder>>

\* a slot that keeps the last failure
RecordLast(slot, e) == e

\* mu.Lock(); if firstError == nil { firstError = err }; mu.Unlock()
RecordFirst(slot, e) == IF slot = NoError THEN e ELSE slot

RecordError(i) ==
    /\ pc[i] = "record"
    /\ firstError' = RecordFirst(firstError, Error(i, err[i]))
    /\ pc' = [pc EXCEPT ![i] = "release"]
    /\ UNCHANGED <<libvars, book, coverLog, profile, apiLog, bookPath, chapters, dirs, files, mainpc, ret, sem, wg, err, imgIdx,
                   pages, fetches, requested, coverFilename, archive, outOfOrder>>

\* a goroutine whose deferred calls do not run when downloadChapter failed
ReleaseUnlessFailed(i) ==
    /\ pc[i] = "release"
    /\ sem' = IF err[i] = "" THEN sem - 1 ELSE sem
    /\ wg' = IF err[i] = "" THEN wg - 1 ELSE wg
    /\ pc' = [pc EXCEPT ![i] = "done"]
    /\ outOfOrder' = (outOfOrder \/ \E j \in Workers : j < i /\ pc[j] # "done")
    /\ UNCHANGED <<libvars, book, coverLog, profile, apiLog, bookPath, chapters, dirs, files, mainpc, ret, firstError, err, imgIdx,
                   pages, fetches, requested, coverFilename, archive>>

\* the end of the goroutine: the deferred <-sem, then the deferred wg.Done()
Release(i) ==
    /\ pc[i] = "release"
    /\ sem' = sem - 1
    /\ wg' = wg - 1
    /\ pc' = [pc EXCEPT ![i] = "done"]
    /\ outOfOrder' = (outOfOrder \/ \E j \in Workers : j < i /\ pc[j] # "done")
    /\ UNCHANGED <<libvars, book, coverLog, profile, apiLog, bookPath, chapters, dirs, files, mainpc, ret, firstError, err, imgIdx,
                   pages, fetches, requested, coverFilename, archive>>

\* a wait that gives up at the first recorded failure
JoinedOrFailed == wg = 0 \/ firstError # NoError

\* a wait that does not wait
JoinedAtOnce == wg >= 0

\* wg.Wait() returns when the counter is zero
Joined == wg = 0

\* a Run that packages whatever downloadChapters returned
downloadChaptersWaitGoesOn ==
    /\ mainpc = "wait"
    /\ Joined
    /\ mainpc' = "cover"
    /\ ret' = ret
    /\ UNCHANGED <<libvars, book, coverLog, profile, apiLog, bookPath, chapters, dirs, files, pc, sem, wg, firstError, err, imgIdx,
                   pages, fetches, requested, coverFilename, archive, outOfOrder>>

\* wg.Wait(); return firstError -- and Run returns it, or goes on to generateEPUB
downloadChaptersWait ==
    /\ mainpc = "wait"
    /\ Joined
    /\ IF firstError # NoError THEN Returns(firstError)
       ELSE mainpc' = "cover" /\ ret' = ret
    /\ UNCHANGED <<libvars, book, coverLog, profile, apiLog, bookPath, chapters, dirs, files, pc, sem, wg, firstError, err, imgIdx,
                   pages, fetches, requested, coverFilename, archive, outOfOrder>>

(***************************************************************************)
(* generateEPUB: cover resolution                                          *)
(***************************************************************************)
sizeVariants == <<"1200w", "800w", "600w", "500w", "400w", "200w", "large", "medium", "small", "thumb">>

\* the variants with the original URL tried first
generateCoverURLVariantsOriginalFirst(coverURL) ==
    LET hits == {k \in DOMAIN sizeVariants : Contains(coverURL, sizeVariants[k])}
    IN  IF hits # {}
        THEN <<coverURL, ReplaceAll(coverURL, sizeVariants[Min(hits)], "600w")>>
        ELSE <<coverURL, TrimSuffix(coverURL, "/") \o <<"/", "600w", "/">>>>

generateCoverURLVariants(coverURL) ==
    LET hits == {k \in DOMAIN sizeVariants : Contains(coverURL, sizeVariants[k])}
    IN  IF hits # {}
        THEN <<ReplaceAll(coverURL, sizeVariants[Min(hits)], "600w"), coverURL>>
        ELSE <<TrimSuffix(coverURL, "/") \o <<"/", "600w", "/">>, coverURL>>

NoCover(fs, req, log) == [name |-> Empty, files |-> fs, requested |-> req, log |-> log]

\* the variant loop of downloadLargestCover and of findLargestImageFromList: the
\* first variant answered 2xx and saved gives the cover file name
RECURSIVE TryVariants(_, _, _, _)
TryVariants(fs, req, log, variants) ==
    IF variants = <<>> THEN NoCover(fs, req, log)
    ELSE LET url == Head(variants)
             resp == Get(book.web, url)
             name == <<"cover", IF Contains(url, ".png") THEN ".png" ELSE ".jpg">>
             coverFile == Join(ImagesDir, name)
         IN  IF resp.err \/ ~IsSuccess(resp) \/ ~CanWrite(dirs, coverFile)
             THEN TryVariants(fs, req \cup {url}, Append(log, url), Tail(variants))
             ELSE [name |-> name,
                   files |-> WriteFile(fs, coverFile, File("image", resp.payload.bytes)),
                   requested |-> req \cup {url},
                   log |-> Append(log, url)]

downloadLargestCover(coverURL, fs, req, log) ==
    TryVariants(fs, req, log, generateCoverURLVariants(coverURL))

RECURSIVE findLargestImageFromList(_, _, _, _, _)
findLargestImageFromList(chapter, imageURLs, fs, req, log) ==
    IF imageURLs = <<>> THEN NoCover(fs, req, log)
    ELSE LET url == resolveImageURL(chapter, Head(imageURLs))
             r == TryVariants(fs, req, log, generateCoverURLVariants(url))
         IN  IF url = Empty THEN findLargestImageFromList(chapter, Tail(imageURLs), fs, req, log)
             ELSE IF r.name # Empty THEN r
             ELSE findLargestImageFromList(chapter, Tail(imageURLs), r.files, r.requested, r.log)

IsCoverChapter(ch) ==
    Contains(ToLower(ch.Title), "cover") \/ Contains(ToLower(ch.Filename), "cover")

\* the loop of findCoverInChapters from chapter k on (k = 1, 2, 3); the chapter
\* whose content is fetched keeps the body as its content
RECURSIVE findCoverInChapters(_, _, _, _, _)
findCoverInChapters(chs, k, fs, req, log) ==
    IF k > Len(chs) \/ k > 3 THEN [chapters |-> chs] @@ NoCover(fs, req, log)
    ELSE IF ~IsCoverChapter(chs[k]) THEN findCoverInChapters(chs, k + 1, fs, req, log)
    ELSE LET resp == GetContent(book.web, chs[k].Content)
             got == [chs EXCEPT ![k].Content = ContentBody(resp.payload)]
         IN  IF resp.err \/ ~IsSuccess(resp) THEN findCoverInChapters(chs, k + 1, fs, req, log)
             ELSE IF Len(chs[k].Images) > 0
                  THEN [chapters |-> got]
                       @@ findLargestImageFromList(got[k], got[k].Images, fs, req, log)
                  ELSE findCoverInChapters(got, k + 1, fs, req, log)

\* generateEPUB, lines 245-253
ResolveCover ==
    /\ mainpc = "cover"
    /\ LET r == IF book.Cover # Empty
                THEN [chapters |-> chapters]
                     @@ downloadLargestCover(book.Cover, files, requested, coverLog)
                ELSE findCoverInChapters(chapters, 1, files, requested, coverLog)
       IN  /\ coverFilename' = r.name
           /\ files' = r.files
           /\ requested' = r.requested
           /\ coverLog' = r.log
           /\ chapters' = r.chapters
    /\ mainpc' = "layout"
    /\ UNCHANGED <<libvars, book, profile, apiLog, bookPath, dirs, ret, pc, sem, wg, firstError, err, imgIdx,
                   pages, fetches, archive, outOfOrder>>

(***************************************************************************)
(* generateEPUB: cover page, mimetype, container, content.opf, toc.ncx     *)
(***************************************************************************)
CoverPagePath == Join(OEBPS, <<"cover", ".xhtml">>)

MimetypePath == <<"mimetype">>

ContainerPath == Join(MetaInf, <<"container", ".xml">>)

OPFPath == Join(OEBPS, <<"content", ".opf">>)

NCXPath == Join(OEBPS, <<"toc", ".ncx">>)

\* os.WriteFile whose error the caller drops: the file is there afterwards
\* unless the path cannot be written or the system call failed
TryWrite(fs, ds, path, content, failed) ==
    IF CanWrite(ds, path) /\ ~failed THEN WriteFile(fs, path, content) ELSE fs

\* the calls of generateEPUB that the file system may fail, at most one per run
LayoutCalls == {"cover", "mimetype", "metainf", "container"}

\* generateEPUB, lines 255-287: none of the four calls has its error looked at
WriteLayout ==
    /\ mainpc = "layout"
    /\ \E failed \in {"none"} \cup LayoutCalls :
         /\ dirs' = IF failed = "metainf" THEN dirs ELSE dirs \cup {MetaInf}
         /\ LET f1 == IF coverFilename # Empty
                      THEN TryWrite(files, dirs, CoverPagePath, File("coverpage", coverFilename),
                                    failed = "cover")
                      ELSE files
                f2 == TryWrite(f1, dirs, MimetypePath, File("mimetype", "application/epub+zip"),
                               failed = "mimetype")
            IN  files' = TryWrite(f2, dirs', ContainerPath, File("container", "OEBPS/content.opf"),
                                  failed = "container")
    /\ mainpc' = "metadata"
    /\ UNCHANGED <<libvars, book, coverLog, profile, apiLog, bookPath, chapters, ret, pc, sem, wg, firstError, err, imgIdx,
                   pages, fetches, requested, coverFilename, archive, outOfOrder>>

XHTML == "application/xhtml+xml"

Item(id, href, mediaType) == [id |-> id, href |-> href, mediaType |-> mediaType]

ChapterID(i) == <<"ch", ToString(i - 1)>>

DotTokens == {".jpg", ".jpeg", ".png", ".gif", ".webp", ".svg", ".JPG", ".PNG",
              ".html", ".xhtml", ".css", ".opf", ".ncx", ".xml", ".epub"}

\* filepath.Ext: the suffix from the last dot on
Ext(name) == IF Len(name) > 0 /\ name[Len(name)] \in DotTokens THEN name[Len(name)] ELSE ""

getImageMediaType(ext) ==
    CASE ext \in {".jpg", ".jpeg"} -> "image/jpeg"
      [] ext = ".png" -> "image/png"
      [] ext = ".gif" -> "image/gif"
      [] ext = ".svg" -> "image/svg+xml"
      [] ext = ".webp" -> "image/webp"
      [] OTHER -> "image/jpeg"

\* lines 327-341: the cover page first, then the chapters in slice order
ChapterManifest(chs, cover) ==
    (IF cover # Empty THEN <<Item(<<"cover">>, <<"cover", ".xhtml">>, XHTML)>> ELSE <<>>)
    \o [i \in DOMAIN chs |-> Item(ChapterID(i), chs[i].Filename, XHTML)]

\* a spine with the cover page after the chapters
ChapterSpineCoverLast(chs, cover) ==
    [i \in DOMAIN chs |-> ChapterID(i)]
    \o (IF cover # Empty THEN <<<<"cover">>>> ELSE <<>>)

ChapterSpine(chs, cover) ==
    (IF cover # Empty THEN <<<<"cover">>>> ELSE <<>>)
    \o [i \in DOMAIN chs |-> ChapterID(i)]

\* lines 343-365: one item per entry of OEBPS/Images
ImageManifest(fs, cover) ==
    LET entries == ReadDir(fs, ImagesDir)
    IN  [idx \in DOMAIN entries |->
            IF entries[idx] = cover
            THEN Item(<<"cover-image">>, <<"Images", "/">> \o entries[idx],
                      getImageMediaType(Lower(Ext(entries[idx]))))
            ELSE Item(<<"img", ToString(idx - 1)>>, <<"Images", "/">> \o entries[idx],
                      getImageMediaType(Lower(Ext(entries[idx]))))]

\* lines 431-439
NavMap(chs) ==
    [i \in DOMAIN chs |->
        [id |-> ChapterID(i), playOrder |-> i, label |-> chs[i].Title, src |-> chs[i].Filename]]

\* content.opf: the manifest (the ncx item of the template first), the spine, the
\* cover meta element
ContentOPF(chs, fs, cover) ==
    [manifest |-> <<Item(<<"ncx">>, <<"toc", ".ncx">>, "application/x-dtbncx+xml")>>
                   \o ChapterManifest(chs, cover) \o ImageManifest(fs, cover),
     spine |-> ChapterSpine(chs, cover),
     coverMeta |-> cover \in Range(ReadDir(fs, ImagesDir))]

\* the two writes of writeEPUBMetadata that the file system may fail
MetadataCalls == {"opf", "ncx"}

\* lines 453-455: both errors are dropped and the function returns nil
writeEPUBMetadata ==
    /\ mainpc = "metadata"
    /\ \E failed \in {"none"} \cup MetadataCalls :
         files' = TryWrite(TryWrite(files, dirs, OPFPath,
                                    File("opf", ContentOPF(chapters, files, coverFilename)),
                                    failed = "opf"),
                           dirs, NCXPath, File("ncx", NavMap(chapters)), failed = "ncx")
    /\ mainpc' = "zip"
    /\ UNCHANGED <<libvars, book, coverLog, profile, apiLog, bookPath, chapters, dirs, ret, pc, sem, wg, firstError, err, imgIdx,
                   pages, fetches, requested, coverFilename, archive, outOfOrder>>

\* the book directory name and the archive inside it
EpubPath == bookPath \o <<".epub">>

\* the byte a file or directory name starts with
FirstByte(name) ==
    CASE name[1] = "B" -> 66
      [] name[1] = "COVER" -> 67
      [] name[1] = "Images" -> 73
      [] name[1] = "META-INF" -> 77
      [] name[1] = "OEBPS" -> 79
      [] name[1] \in {"Styles", "Style"} -> 83
      [] name[1] \in {"ch", "content", "container", "cover"} -> 99
      [] name[1] \in {"fig1", "fig2", "front"} -> 102
      [] name[1] = "mimetype" -> 109
      [] name[1] \in {"titlepage", "toc"} -> 116

\* filepath.WalkDir reads a directory sorted by name; the model orders the
\* names by their first byte and keeps one fixed order among equal ones
RECURSIVE SortNames(_)
SortNames(S) ==
    IF S = {} THEN <<>>
    ELSE LET lo == CHOOSE x \in S : \A y \in S : FirstByte(x) <= FirstByte(y)
         IN  <<lo>> \o SortNames(S \ {lo})

\* the names of the files and directories directly in dir
Entries(fs, ds, dir) ==
    {IF dir = Empty THEN p ELSE SubSeq(p, Len(dir) + 2, Len(p)) :
        p \in {q \in (DOMAIN fs \cup ds) \ {Empty} : Parent(q) = dir}}

\* zipWriter.Create: a header with the Deflate method, or Store for a name
\* that ends with a slash
ZipEntry(rel, isDir) ==
    [name |-> IF isDir THEN rel \o <<"/">> ELSE rel,
     method |-> IF isDir THEN "store" ELSE "deflate"]

\* the callback of WalkDir over the sorted names of dir, depth first
RECURSIVE WalkDir(_, _, _, _)
WalkDir(fs, ds, dir, names) ==
    IF names = <<>> THEN <<>>
    ELSE LET rel == Join(dir, Head(names))
         IN  (IF rel \in ds
              THEN <<ZipEntry(rel, TRUE)>> \o WalkDir(fs, ds, rel, SortNames(Entries(fs, ds, rel)))
              ELSE <<ZipEntry(rel, FALSE)>>)
             \o WalkDir(fs, ds, dir, Tail(names))

\* utils.ZipDirectory: an entry per directory and per file under the book root,
\* in the order of the walk
ZipDirectory(fs, ds) == WalkDir(fs, ds, Empty, SortNames(Entries(fs, ds, Empty)))

\* generateEPUB, lines 294-301, and the return of Run
ZipAndRename ==
    /\ mainpc = "zip"
    /\ \E outcome \in {"ok", "zip", "rename"} :
         /\ archive' = IF outcome = "zip" THEN archive ELSE ZipDirectory(files, dirs)
         /\ files' = IF outcome = "ok" THEN WriteFile(files, EpubPath, File("epub", archive')) ELSE files
         /\ Returns(IF outcome = "ok" THEN NoError ELSE Error(0, outcome))
    /\ UNCHANGED <<libvars, book, coverLog, profile, apiLog, bookPath, chapters, dirs, pc, sem, wg, firstError, err, imgIdx,
                   pages, fetches, requested, coverFilename, outOfOrder>>

(***************************************************************************)
(* The specification                                                       *)
(***************************************************************************)
Next ==
    \/ NewClient
    \/ RunGetBookInfo
    \/ RunGetBookChapters
    \/ createBookDirectory
    \/ downloadChaptersStart
    \/ \E i \in Workers : Acquire(i)
    \/ \E i \in Workers : FetchChapter(i)
    \/ \E i \in Workers : ParseAndWrite(i)
    \/ \E i \in Workers : AssetNext(i)
    \/ \E i \in Workers : ImageFetch(i)
    \/ \E i \in Workers : RecordError(i)
    \/ \E i \in Workers : Release(i)
    \/ downloadChaptersWait
    \/ ResolveCover
    \/ WriteLayout
    \/ writeEPUBMetadata
    \/ ZipAndRename

Spec == Init /\ [][Next]_vars

\* books for the termination of the pool: no chapter, more chapters than
\* permits, fewer chapters than permits with every mix of outcomes, images
FairBooks ==
    {PoolBook(n) : n \in {0, maxWorkers + 1}}
    \cup {MixedBook(kinds) : kinds \in [1..MaxMixed -> AnswerKinds]}
    \cup {ImageBook}

InitFair ==
    /\ book \in FairBooks
    /\ LibIdle
    /\ profile = NoProbe
    /\ apiLog = <<>>
    /\ bookPath = Empty
    /\ chapters = <<>>
    /\ dirs = {}
    /\ files = <<>>
    /\ mainpc = "client"
    /\ ret = NoError
    /\ pc = <<>>
    /\ sem = 0
    /\ wg = 0
    /\ firstError = NoError
    /\ err = <<>>
    /\ imgIdx = <<>>
    /\ pages = <<>>
    /\ fetches = <<>>
    /\ requested = {}
    /\ coverFilename = Empty
    /\ archive = <<>>
    /\ coverLog = <<>>
    /\ outOfOrder = FALSE

\* the steps of the chapter goroutines and the return of wg.Wait()
PoolStep ==
    \/ \E i \in Workers : Acquire(i)
    \/ \E i \in Workers : FetchChapter(i)
    \/ \E i \in Workers : ParseAndWrite(i)
    \/ \E i \in Workers : AssetNext(i)
    \/ \E i \in Workers : ImageFetch(i)
    \/ \E i \in Workers : RecordError(i)
    \/ \E i \in Workers : Release(i)
    \/ downloadChaptersWait

\* PoolStep can be taken: a goroutine is past its permit, or waits for one
\* that is free, or every goroutine is done and wg.Wait() can return
PoolCanStep ==
    \/ \E i \in Workers : pc[i] \in {"fetch", "parse", "assets", "image", "record", "release"}
    \/ \E i \in Workers : pc[i] = "acquire" /\ CanAcquire
    \/ mainpc = "wait" /\ Joined

\* the Go scheduler runs a goroutine that can run, and every HTTP request and
\* file write returns: weak fairness of PoolStep, written with its enabling
\* condition
Fairness == []<>(~PoolCanStep) \/ []<><<PoolStep>>_vars

SpecFair == InitFair /\ [][Next]_vars /\ Fairness

(***************************************************************************)
(* internal/http: GetBookChapters, the walk over the pages of the chapter  *)
(* index.  Its inputs are the pages the API holds for the book.            *)
(***************************************************************************)
\* the chapters of all pages of the largest index
MaxIndex == 4

\* the pages of the longest index
MaxPages == 2

ChapterKinds == {"plain", "title", "file"}

\* a chapter of the API: plain, with a title containing Cover, or with a
\* filename containing COVER; id is its position in the index
ApiChapter(kind, id) ==
    [Title |-> IF kind = "title" THEN <<"The", "Cover">> ELSE <<"Chapter">>,
     Filename |-> IF kind = "file" THEN <<"COVER", ".html">> ELSE <<"ch", ".html">>,
     ID |-> id]

\* the index kinds cut into pages at the positions cuts (a page may be empty)
PagesOf(kinds, cuts) ==
    [n \in 1..(Len(cuts) + 1) |->
        LET from == IF n = 1 THEN 0 ELSE cuts[n - 1]
            to == IF n > Len(cuts) THEN Len(kinds) ELSE cuts[n]
        IN  [j \in 1..(to - from) |-> ApiChapter(kinds[from + j], from + j)]]

\* how the index ends: the last page has next null or "", or it points to a
\* page that is a request error, a 500, a malformed body or missing (404)
Endings == {"null", "empty", "err", "status", "malformed", "missing"}

ApiBook(results, ending) == [bookID |-> "9781", results |-> results, ending |-> ending]

\* cuts are positions of the index in increasing order
ValidCuts(kinds, cuts) ==
    /\ \A k \in DOMAIN cuts : cuts[k] <= Len(kinds)
    /\ \A k \in DOMAIN cuts : k > 1 => cuts[k - 1] <= cuts[k]

IndexInputs ==
    {x \in (UNION {[1..l -> ChapterKinds] : l \in 0..MaxIndex})
           \X (UNION {[1..c -> 0..MaxIndex] : c \in 0..(MaxPages - 1)}) :
        ValidCuts(x[1], x[2])}

ApiBooks ==
    {ApiBook(<<>>, e) : e \in Endings}
    \cup {ApiBook(PagesOf(x[1], x[2]), e) : x \in IndexInputs, e \in Endings}

\* *string: nil, or a string
NextNull == [null |-> TRUE, url |-> Empty]

NextURL(url) == [null |-> FALSE, url |-> url]

\* what the API answers for page n of the book b
PageAnswer(b, n) ==
    IF n <= Len(b.results)
    THEN [err |-> FALSE, status |-> 200, malformed |-> FALSE, results |-> b.results[n],
          next |-> IF n = Len(b.results) /\ b.ending = "null" THEN NextNull
                   ELSE IF n = Len(b.results) /\ b.ending = "empty" THEN NextURL(Empty)
                   ELSE NextURL(ChapterPageURL(n + 1))]
    ELSE [err |-> n = Len(b.results) + 1 /\ b.ending = "err",
          status |-> IF n > Len(b.results) + 1 \/ b.ending \in {"null", "empty", "missing"} THEN 404
                     ELSE IF b.ending = "status" THEN 500
                     ELSE 200,
          malformed |-> n = Len(b.results) + 1 /\ b.ending = "malformed",
          results |-> <<>>,
          next |-> NextNull]

\* c.client.R().Get(pageURL)
GetPage(b, pageURL) ==
    IF \E n \in 1..(Len(b.results) + 1) : ChapterPageURL(n) = pageURL
    THEN PageAnswer(b, CHOOSE n \in 1..(Len(b.results) + 1) : ChapterPageURL(n) = pageURL)
    ELSE PageAnswer(b, Len(b.results) + 2)

\* the two filters of the promotion
IsPromoted(chapter) ==
    Contains(ToLower(chapter.Filename), "cover") \/ Contains(ToLower(chapter.Title), "cover")

IsRemaining(chapter) ==
    ~Contains(ToLower(chapter.Filename), "cover") /\ ~Contains(ToLower(chapter.Title), "cover")

\* a promotion that puts the remaining chapters first
PromoteLast(results) == SelectSeq(results, IsRemaining) \o SelectSeq(results, IsPromoted)

\* covers first, then the remaining chapters
Promote(results) == SelectSeq(results, IsPromoted) \o SelectSeq(results, IsRemaining)

\* a walk that stops after the first page
NextPageNone(next) == Empty

\* the cursor of the next turn of the loop
NextPage(next) == IF ~next.null /\ next.url # Empty THEN next.url ELSE Empty

ApiFailure(kind, log) == [chapters |-> <<>>, err |-> kind, log |-> log]

\* the loop of GetBookChapters from pageURL on; log is the requests made
RECURSIVE GetBookChaptersFrom(_, _, _, _)
GetBookChaptersFrom(b, pageURL, all, log) ==
    IF pageURL = Empty THEN [chapters |-> all, err |-> "", log |-> log]
    ELSE LET resp == GetPage(b, pageURL)
             asked == Append(log, pageURL)
         IN  IF resp.err THEN ApiFailure("request", asked)
             ELSE IF ~IsSuccess(resp) THEN ApiFailure("status", asked)
             ELSE IF resp.malformed THEN ApiFailure("invalid", asked)
             ELSE IF Len(resp.results) = 0 THEN ApiFailure("empty", asked)
             ELSE GetBookChaptersFrom(b, NextPage(resp.next), all \o Promote(resp.results), asked)

GetBookChapters(b) == GetBookChaptersFrom(b, ChapterPageURL(1), <<>>, <<>>)

\* a client that passed the probe
Authenticated == [err |-> FALSE, status |-> 200, expired |-> FALSE]

InitAPI ==
    /\ book \in ApiBooks
    /\ LibIdle
    /\ profile = Authenticated
    /\ apiLog = <<profileURL>>
    /\ bookPath = Empty
    /\ chapters = <<>>
    /\ dirs = {}
    /\ files = <<>>
    /\ mainpc = "chapters"
    /\ ret = NoError
    /\ pc = <<>>
    /\ sem = 0
    /\ wg = 0
    /\ firstError = NoError
    /\ err = <<>>
    /\ imgIdx = <<>>
    /\ pages = <<>>
    /\ fetches = <<>>
    /\ requested = {}
    /\ coverFilename = Empty
    /\ archive = <<>>
    /\ coverLog = <<>>
    /\ outOfOrder = FALSE

\* Run calls GetBookChapters and stops there
CallGetBookChapters ==
    /\ mainpc = "chapters"
    /\ LET r == GetBookChapters(book)
       IN  /\ chapters' = r.chapters
           /\ apiLog' = apiLog \o r.log
           /\ Returns(IF r.err = "" THEN NoError ELSE Error(0, r.err))
    /\ UNCHANGED <<libvars, book, coverLog, profile, bookPath, dirs, files, pc, sem, wg, firstError, err, imgIdx,
                   pages, fetches, requested, coverFilename, archive, outOfOrder>>

NextAPI == CallGetBookChapters

SpecAPI == InitAPI /\ [][NextAPI]_vars

(***************************************************************************)
(* The program run again for the same book into the same books directory   *)
(***************************************************************************)
\* books for the second run: a chapter that downloads, one that fails, images,
\* a cover
RerunBooks == {MixedBook(<<"ok">>), MixedBook(<<"status">>), ImageBook, CoverPageBook}

InitRerun ==
    /\ book \in RerunBooks
    /\ LibIdle
    /\ profile = NoProbe
    /\ apiLog = <<>>
    /\ bookPath = Empty
    /\ chapters = <<>>
    /\ dirs = {}
    /\ files = <<>>
    /\ mainpc = "client"
    /\ ret = NoError
    /\ pc = <<>>
    /\ sem = 0
    /\ wg = 0
    /\ firstError = NoError
    /\ err = <<>>
    /\ imgIdx = <<>>
    /\ pages = <<>>
    /\ fetches = <<>>
    /\ requested = {}
    /\ coverFilename = Empty
    /\ archive = <<>>
    /\ coverLog = <<>>
    /\ outOfOrder = FALSE

\* main is started again after a run that reported success: a new client and
\* a new downloader, the books directory as the first run left it
Rerun ==
    /\ mainpc = "returned"
    /\ ret = NoError
    /\ pc # <<>>
    /\ profile' = NoProbe
    /\ apiLog' = <<>>
    /\ bookPath' = Empty
    /\ chapters' = <<>>
    /\ mainpc' = "client"
    /\ pc' = <<>>
    /\ sem' = 0
    /\ wg' = 0
    /\ firstError' = NoError
    /\ err' = <<>>
    /\ imgIdx' = <<>>
    /\ pages' = <<>>
    /\ fetches' = <<>>
    /\ requested' = {}
    /\ coverFilename' = Empty
    /\ archive' = <<>>
    /\ coverLog' = <<>>
    /\ outOfOrder' = FALSE
    /\ UNCHANGED <<libvars, book, ret, dirs, files>>

NextRerun == Next \/ Rerun

SpecRerun == InitRerun /\ [][NextRerun]_vars

(***************************************************************************)
(* The functions specified on their own: no run of the program is going on *)
(***************************************************************************)
runvars == <<book, profile, apiLog, bookPath, chapters, dirs, files, mainpc, ret, pc, sem, wg, firstError,
             err, imgIdx, pages, fetches, requested, coverFilename, coverLog, archive, outOfOrder>>

NoRun ==
    /\ book = PoolBook(0)
    /\ profile = NoProbe
    /\ apiLog = <<>>
    /\ bookPath = Empty
    /\ chapters = <<>>
    /\ dirs = {}
    /\ files = <<>>
    /\ mainpc = "client"
    /\ ret = NoError
    /\ pc = <<>>
    /\ sem = 0
    /\ wg = 0
    /\ firstError = NoError
    /\ err = <<>>
    /\ imgIdx = <<>>
    /\ pages = <<>>
    /\ fetches = <<>>
    /\ requested = {}
    /\ coverFilename = Empty
    /\ coverLog = <<>>
    /\ archive = <<>>
    /\ outOfOrder = FALSE

(***************************************************************************)
(* ensureCSS: one Parser, a sequence of registrations                      *)
(***************************************************************************)
\* the longest sequence of registrations
MaxCalls == 4

Sheet(name) == <<Site, "/", "static", "/", name, ".css">>

\* the non-empty URLs registered
SheetPool == {Sheet("a"), Sheet("b"), Sheet("c")}

InitRegistry ==
    /\ NoRun
    /\ cookiesFile = NoFile
    /\ cookies = NotLoaded
    /\ parser = NewParser(<<Site>>, FALSE)
    /\ calls = <<>>

\* one call p.ensureCSS(url)
Register(url) ==
    /\ Len(calls) < MaxCalls
    /\ LET r == ensureCSS(parser, url)
       IN  /\ parser' = r.p
           /\ calls' = Append(calls, [url |-> url, idx |-> r.idx])
    /\ UNCHANGED <<runvars, cookiesFile, cookies>>

NextRegistry == \E url \in SheetPool : Register(url)

SpecRegistry == InitRegistry /\ [][NextRegistry]_vars

(***************************************************************************)
(* LoadCookies: one call on one cookies file                               *)
(***************************************************************************)
InitCookies ==
    /\ NoRun
    /\ cookiesFile \in CookieFiles
    /\ cookies = NotLoaded
    /\ parser = NewParser(<<Site>>, FALSE)
    /\ calls = <<>>

CallLoadCookies ==
    /\ cookies = NotLoaded
    /\ cookies' = LoadCookies(cookiesFile)
    /\ UNCHANGED <<runvars, cookiesFile, parser, calls>>

NextCookies == CallLoadCookies

SpecCookies == InitCookies /\ [][NextCookies]_vars

(***************************************************************************)
(* Properties of the worker pool                                           *)
(***************************************************************************)
\* the goroutines between sem <- struct{}{} and the deferred <-sem
InFlight == {i \in Workers : pc[i] \in {"fetch", "parse", "assets", "image", "record", "release"}}

\* downloadChapters has returned (wg.Wait() is over)
PoolReturned ==
    \/ mainpc \in {"cover", "layout", "metadata", "zip"}
    \/ mainpc = "returned" /\ pc # <<>>

\* what downloadChapters returned: Run returns it unless it is nil
PoolResult == IF mainpc = "returned" /\ ret.chapter # 0 THEN ret ELSE NoError

\* the chapters whose downloadChapter returned an error
Failed == {i \in Workers : err[i] # ""}

\* C1: in every interleaving at most 5 chapter tasks are between permit
\* acquisition and permit release, and they are the holders of the permits
C1_AtMostFiveInFlight ==
    /\ Cardinality(InFlight) <= 5
    /\ Cardinality(InFlight) = sem

\* five tasks hold a permit, one of them fetching, while a sixth waits for one
C1_PoolFull ==
    /\ Cardinality(InFlight) = 5
    /\ \E i \in Workers : pc[i] = "acquire"
    /\ \E i \in Workers : pc[i] = "fetch"

\* C2: the first-error slot is write-once (a recorded failure is never replaced,
\* the first goroutine to record fills the slot with its own failure), and
\* downloadChapters returns nil exactly when no chapter failed and otherwise
\* the failure held by the slot, which is the failure of that chapter
C2_FirstErrorWins ==
    /\ [][firstError # NoError => firstError' = firstError]_vars
    /\ [][\A i \in Workers :
            (pc[i] = "record" /\ pc'[i] = "release" /\ firstError = NoError)
                => firstError' = Error(i, err[i])]_vars
    /\ [](PoolReturned =>
            /\ (PoolResult = NoError <=> Failed = {})
            /\ (PoolResult # NoError =>
                  /\ PoolResult = firstError
                  /\ PoolResult.chapter \in Failed
                  /\ PoolResult.kind = err[PoolResult.chapter]))

\* two chapters failed, the second one recorded first and is what was returned
C2_TwoFailures ==
    /\ mainpc = "returned"
    /\ Cardinality(Failed) = 2
    /\ ret = firstError
    /\ ret.chapter = 2
    /\ pc[1] = "done"

\* C3: a failure of one chapter does not stop the others: no content is ever
\* requested twice, and when downloadChapters returns the content of every
\* chapter of the index has been requested exactly once
C3_EveryChapterFetchedOnce ==
    /\ \A i \in Workers : fetches[i] <= 1
    /\ PoolReturned => \A i \in DOMAIN chapters : i \in Workers /\ fetches[i] = 1

\* the pool is over, the first chapter failed and was recorded, another chapter
\* was fetched and processed, and the goroutines finished out of index order
C3_FailedAndProcessed ==
    /\ PoolReturned
    /\ firstError.chapter = 1
    /\ \E j \in Workers : err[j] = "" /\ j # 1 /\ fetches[j] = 1 /\ fetches[1] = 1
    /\ outOfOrder

\* C4: no packager step runs while a chapter worker is running: whenever Run
\* is in generateEPUB every goroutine has finished and all permits are back,
\* and generateEPUB is not entered at all when a chapter has failed
C4_PackagerAfterJoin ==
    mainpc \in {"cover", "layout", "metadata", "zip"} =>
        /\ \A i \in Workers : pc[i] = "done"
        /\ sem = 0
        /\ wg = 0
        /\ Failed = {}

\* the packager is at work on a book of more chapters than permits whose
\* workers finished out of index order
C4_Packaging ==
    /\ mainpc = "layout"
    /\ Len(chapters) > maxWorkers
    /\ \A i \in Workers : pc[i] = "done"
    /\ outOfOrder

(***************************************************************************)
(* Properties of the packager and of the emitted pages                     *)
(***************************************************************************)
\* Run returned nil after the whole pipeline
Succeeded == mainpc = "returned" /\ ret = NoError /\ pc # <<>>

\* the content.opf and the toc.ncx on disk
OPF == files[OPFPath].data

NCX == files[NCXPath].data

\* 1 when generateEPUB resolved a cover, else 0
CoverItems == IF coverFilename # Empty THEN 1 ELSE 0

\* C5: whatever order the workers complete in, the spine and the navMap list
\* the chapters in the order of the chapter index: chapter i (from 0) has id
\* ch{i} and playOrder i+1 and is the chapter the index has at i, every chapter
\* appears exactly once, the cover itemref (when a cover exists) comes before
\* every chapter itemref, and the navMap has no cover entry
C5_SpineAndNavInIndexOrder ==
    (OPFPath \in DOMAIN files /\ NCXPath \in DOMAIN files) =>
        /\ Len(OPF.spine) = Len(book.chapters) + CoverItems
        /\ CoverItems = 1 => OPF.spine[1] = <<"cover">>
        /\ \A i \in DOMAIN book.chapters :
              /\ OPF.spine[i + CoverItems] = <<"ch", ToString(i - 1)>>
              /\ \E k \in DOMAIN OPF.manifest :
                    /\ OPF.manifest[k].id = <<"ch", ToString(i - 1)>>
                    /\ OPF.manifest[k].href = ReplaceAll(book.chapters[i].Filename, ".html", ".xhtml")
        /\ Len(NCX) = Len(book.chapters)
        /\ \A i \in DOMAIN book.chapters :
              /\ NCX[i].id = <<"ch", ToString(i - 1)>>
              /\ NCX[i].playOrder = i
              /\ NCX[i].label = book.chapters[i].Title
              /\ NCX[i].src = ReplaceAll(book.chapters[i].Filename, ".html", ".xhtml")
        /\ \A i \in DOMAIN NCX : NCX[i].id # <<"cover">>

\* the metadata of a book with a cover and more chapters than permits, whose
\* workers finished out of index order
C5_CoverAndOutOfOrder ==
    /\ OPFPath \in DOMAIN files
    /\ NCXPath \in DOMAIN files
    /\ coverFilename # Empty
    /\ Len(chapters) > maxWorkers
    /\ outOfOrder

\* the absolute stylesheet URLs the parser of goroutine i registered, by position
\* of the link in the page head
RegisteredURLs(i) == SheetURLs(WorkerParser(i), chapters[i], chapters[i].Content.body)

\* C6: after a successful run every stylesheet URL registered during the run
\* has been requested, and the Styles/StyleNN.css file a page links exists
\* when the site answers that URL with a 2xx response
C6_StylesheetsFetched ==
    Succeeded =>
        \A i \in Workers : \A k \in DOMAIN pages[i].css :
            /\ RegisteredURLs(i)[k] \in requested
            /\ IsSuccess(Get(book.web, RegisteredURLs(i)[k]))
                  => Join(OEBPS, pages[i].css[k]) \in DOMAIN files

\* C7: within one run a stylesheet URL has the same Styles/StyleNN.css name in
\* every page that links it, and two distinct URLs never have the same name
C7_OneNamePerStylesheet ==
    \A i \in Workers : \A j \in Workers :
        \A k \in DOMAIN pages[i].css : \A l \in DOMAIN pages[j].css :
            (RegisteredURLs(i)[k] = RegisteredURLs(j)[l]) <=> (pages[i].css[k] = pages[j].css[l])

\* the book has no cover URL and one of its first three chapters is a cover
\* chapter whose first image the site answers with a 2xx response
HasCoverChapter ==
    /\ book.Cover = Empty
    /\ \E k \in DOMAIN book.chapters :
          /\ k <= 3
          /\ IsCoverChapter(book.chapters[k])
          /\ Len(book.chapters[k].Images) > 0
          /\ IsSuccess(Get(book.web, resolveImageURL(book.chapters[k], book.chapters[k].Images[1])))

\* C8: for such a book, once all chapters were downloaded and generateEPUB has
\* written its layout, the image is saved as Images/cover.jpg or cover.png and
\* the cover page exists
C8_CoverFromCoverChapter ==
    (mainpc \in {"metadata", "zip"} /\ HasCoverChapter) =>
        /\ coverFilename \in {<<"cover", ".jpg">>, <<"cover", ".png">>}
        /\ Join(ImagesDir, coverFilename) \in DOMAIN files
        /\ CoverPagePath \in DOMAIN files
        /\ files[CoverPagePath].kind = "coverpage"

\* the files under OEBPS other than content.opf, and the href of one
OEBPSFiles == {p \in DOMAIN files : HasPrefix(p, "OEBPS") /\ p # OPFPath}

Href(p) == SubSeq(p, 3, Len(p))

\* C9: in every produced content.opf the manifest has exactly one item per file
\* under OEBPS other than content.opf, every item names such a file, and the
\* spine has an itemref for every item of media type application/xhtml+xml
C9_ManifestMatchesFiles ==
    OPFPath \in DOMAIN files =>
        /\ \A p \in OEBPSFiles :
              Cardinality({k \in DOMAIN OPF.manifest : OPF.manifest[k].href = Href(p)}) = 1
        /\ \A k \in DOMAIN OPF.manifest : Join(OEBPS, OPF.manifest[k].href) \in OEBPSFiles
        /\ \A k \in DOMAIN OPF.manifest :
              OPF.manifest[k].mediaType = XHTML => OPF.manifest[k].id \in Range(OPF.spine)

\* the attribute values of the emitted pages that linkReplace turned into
\* Images/<basename>, as the basenames
RewrittenImages ==
    UNION {{SubSeq(pages[i].attrs[k], 3, Len(pages[i].attrs[k])) :
               k \in {n \in DOMAIN pages[i].attrs :
                         /\ Len(pages[i].attrs[n]) > 2
                         /\ pages[i].attrs[n][1] = "Images"
                         /\ pages[i].attrs[n][2] = "/"
                         /\ pages[i].attrs[n] # TrimSpace(chapters[i].Content.body.attrs[n])}} :
           i \in Workers}

\* the file names of the listed images the site answers with a 2xx response
RetrievableImages ==
    UNION {{FilenameFromURL(resolveImageURL(chapters[i], chapters[i].Images[m])) :
               m \in {n \in DOMAIN chapters[i].Images :
                         /\ resolveImageURL(chapters[i], chapters[i].Images[n]) # Empty
                         /\ IsSuccess(Get(book.web, resolveImageURL(chapters[i], chapters[i].Images[n])))}} :
           i \in Workers}

HasDuplicateFilenames ==
    \E i \in DOMAIN book.chapters : \E j \in DOMAIN book.chapters :
        i # j /\ book.chapters[i].Filename = book.chapters[j].Filename

\* C11: when the chapter index has two chapters with the same filename, Run
\* returns an error and no EPUB is produced; no chapter file is written over
\* the file of another chapter
C11_DuplicateFilenamesFail ==
    (HasDuplicateFilenames /\ mainpc = "returned" /\ pc # <<>>) =>
        /\ ret # NoError
        /\ EpubPath \notin DOMAIN files

\* nothing of the stages after the metadata has happened
NoLaterStage ==
    /\ dirs = {}
    /\ bookPath = Empty
    /\ files = <<>>
    /\ pc = <<>>
    /\ fetches = <<>>
    /\ requested = {}
    /\ archive = <<>>
    /\ coverLog = <<>>

\* C14: if GetBookInfo or GetBookChapters fails, Run returns that error and no
\* later stage runs: GetBookChapters is not called after a failed GetBookInfo,
\* no directory is created, no chapter content is fetched and no file is
\* written; the book directory is created only after both calls succeeded
C14_MetadataFailureStopsRun ==
    /\ (mainpc = "returned" /\ ret.kind \in {"info", "chapters"}) => NoLaterStage
    /\ ret.kind = "info" => apiLog = <<profileURL, BookInfoURL>>
    /\ ret.kind = "chapters" => apiLog = <<profileURL, BookInfoURL, ChapterPageURL(1)>>
    /\ ~NoLaterStage => Len(chapters) > 0 /\ apiLog = <<profileURL, BookInfoURL, ChapterPageURL(1)>>

\* GetBookChapters failed for a book that has chapters, and Run returned that
C14_ChaptersFailed ==
    /\ mainpc = "returned"
    /\ ret = Error(0, "chapters")
    /\ Len(book.chapters) > 0
    /\ NoLaterStage

\* NewClient returned a client
HasClient == mainpc # "client" /\ ~(mainpc = "returned" /\ ret.kind \in {"cookies", "auth"})

\* C15: NewClient returns a client only if the probe of the profile endpoint
\* was answered with a success status and without the marker; after a request
\* error, a non-2xx status or the marker (also at status 200) it returns an
\* error and no client, and no request other than the probe is ever issued
C15_SessionGate ==
    /\ HasClient => ~profile.err /\ IsSuccess(profile) /\ ~profile.expired
    /\ (apiLog # <<>> /\ (profile.err \/ ~IsSuccess(profile) \/ profile.expired)) =>
          /\ mainpc = "returned"
          /\ ret = Error(0, "auth")
          /\ apiLog = <<profileURL>>
          /\ chapters = <<>>
          /\ NoLaterStage

\* the probe was answered 200 with the marker, and NewClient returned an error
C15_ExpiredAt200 ==
    /\ mainpc = "returned"
    /\ ret = Error(0, "auth")
    /\ profile.status = 200
    /\ profile.expired
    /\ apiLog = <<profileURL>>

\* the content of chapter i is answered 2xx with a page that has the content
\* element, and its file can be written
ChapterOK(i) ==
    LET resp == Get(book.web, book.chapters[i].Content.url)
    IN  /\ ~resp.err
        /\ IsSuccess(resp)
        /\ resp.payload.hasContent
        /\ CanWrite(dirs, Join(OEBPS, ReplaceAll(book.chapters[i].Filename, ".html", ".xhtml")))

\* image m of chapter i was attempted: it has no URL or no file name, its URL
\* was requested, or its file was already there
Attempted(i, m) ==
    LET url == resolveImageURL(chapters[i], chapters[i].Images[m])
    IN  \/ url = Empty
        \/ FilenameFromURL(url) = Empty
        \/ url \in requested
        \/ FileExists(Join(ImagesDir, FilenameFromURL(url)))

\* C16: image failures never abort the book: a chapter whose content was
\* fetched, transformed and written ends without error whatever happened to
\* its images, all its images were attempted, and the first-error slot never
\* holds anything but a fetch, parse or write failure
C16_ImageFailuresNotFatal ==
    /\ \A i \in Workers :
          (ChapterOK(i) /\ pc[i] = "done") =>
              /\ err[i] = ""
              /\ firstError.chapter # i
              /\ \A m \in DOMAIN chapters[i].Images : Attempted(i, m)
    /\ firstError.kind \in {"", "download", "status", "parse", "write"}

\* a chapter finished without error although its first image was answered 404;
\* the image after it was requested and saved, and no error is recorded
C16_MissingImageSkipped ==
    /\ book = ImageBook
    /\ 1 \in Workers
    /\ pc[1] = "done"
    /\ err[1] = ""
    /\ chapters[1].Images = <<Fig2, Fig1>>
    /\ ResolveURL(AssetBase, Fig2) \in requested
    /\ Join(ImagesDir, <<"fig2", ".png">>) \notin DOMAIN files
    /\ ResolveURL(AssetBase, Fig1) \in requested
    /\ Join(ImagesDir, <<"fig1", ".png">>) \in DOMAIN files
    /\ firstError = NoError

\* C17: a failure to create or write the top-level layout or the final EPUB
\* is fatal: a run that reports success has the mimetype, the container, the
\* content.opf and the toc.ncx on disk and the archive renamed into place
C17_LayoutFailureIsFatal ==
    Succeeded =>
        /\ {MimetypePath, ContainerPath, OPFPath, NCXPath} \subseteq DOMAIN files
        /\ EpubPath \in DOMAIN files

\* C19: in every produced archive the mimetype entry is the first entry and is
\* stored uncompressed, its content being application/epub+zip
C19_MimetypeFirstAndStored ==
    archive # <<>> =>
        /\ archive[1].name = MimetypePath
        /\ archive[1].method = "store"
        /\ files[MimetypePath].data = "application/epub+zip"

\* generateEPUB has resolved the cover of a book that has a cover URL
CoverResolved == book.Cover # Empty /\ mainpc \in {"layout", "metadata", "zip"}

\* the site answers url with a 2xx response
Answers2xx(url) == ~Get(book.web, url).err /\ IsSuccess(Get(book.web, url))

\* the cover file name a winning URL gives
CoverNameOf(url) == IF ".png" \in Range(url) THEN <<"cover", ".png">> ELSE <<"cover", ".jpg">>

\* the size tokens the URL contains, as positions of the table
MatchedTokens(url) == {k \in DOMAIN sizeVariants : sizeVariants[k] \in Range(url)}

\* the URL with every occurrence of token old turned into 600w
Substituted(url, old) == [i \in DOMAIN url |-> IF url[i] = old THEN "600w" ELSE url[i]]

\* the two URLs first and second are requested in that order, the second only
\* if the first was not answered 2xx, and the first one answered 2xx is saved
\* under the cover name of its URL
RequestedInOrder(first, second) ==
    /\ coverLog = IF Answers2xx(first) THEN <<first>> ELSE <<first, second>>
    /\ coverFilename = IF Answers2xx(first) THEN CoverNameOf(first)
                       ELSE IF Answers2xx(second) THEN CoverNameOf(second)
                       ELSE Empty
    /\ coverFilename # Empty =>
          /\ Join(ImagesDir, coverFilename) \in DOMAIN files
          /\ files[Join(ImagesDir, coverFilename)] =
                File("image", Get(book.web, coverLog[Len(coverLog)]).payload.bytes)

\* C18, as stated: for a non-empty cover URL the packager requests the URL with
\* the first matched size token replaced by 600w, then the original; without a
\* size token <url>/600w/, then the original; it stops at the first 2xx
\* response, saved as Images/cover.jpg, or cover.png when the winning URL
\* contains .png
C18_VariantsInOrder ==
    CoverResolved =>
        IF MatchedTokens(book.Cover) # {}
        THEN RequestedInOrder(Substituted(book.Cover, sizeVariants[Min(MatchedTokens(book.Cover))]),
                              book.Cover)
        ELSE RequestedInOrder(book.Cover \o <<"/", "600w", "/">>, book.Cover)

\* C18, amended: without a size token the first variant is the URL without its
\* trailing slash (if it has one) followed by /600w/
C18_VariantsInOrderSlashTrimmed ==
    CoverResolved =>
        IF MatchedTokens(book.Cover) # {}
        THEN RequestedInOrder(Substituted(book.Cover, sizeVariants[Min(MatchedTokens(book.Cover))]),
                              book.Cover)
        ELSE RequestedInOrder((IF book.Cover[Len(book.Cover)] = "/"
                               THEN SubSeq(book.Cover, 1, Len(book.Cover) - 1)
                               ELSE book.Cover) \o <<"/", "600w", "/">>,
                              book.Cover)

\* the cover URL has the tokens large and 200w; the 600w variant was answered
\* 404, so the original was requested second and saved as cover.png
C18_SecondVariantWins ==
    /\ CoverResolved
    /\ book.Cover = CoverLargePng
    /\ coverLog = <<ReplaceAll(CoverLargePng, "200w", "600w"), CoverLargePng>>
    /\ coverFilename = <<"cover", ".png">>
    /\ Join(ImagesDir, coverFilename) \in DOMAIN files

\* the files only the packager writes
PackagerOutputs == {MimetypePath, ContainerPath, OPFPath, NCXPath, EpubPath}

\* C24: if at least one chapter fails, Run returns the recorded error without
\* invoking the packager: no mimetype, container.xml, content.opf, toc.ncx or
\* .epub is written and no cover is requested, while the chapter files the
\* successful workers wrote exist and no file is ever removed
C24_FailureSkipsPackager ==
    /\ [](Failed # {} =>
            /\ mainpc \in {"wait", "returned"}
            /\ PackagerOutputs \cap DOMAIN files = {}
            /\ MetaInf \notin dirs
            /\ coverLog = <<>>
            /\ coverFilename = Empty
            /\ archive = <<>>
            /\ mainpc = "returned" => (ret = firstError /\ ret.chapter \in Failed)
            /\ \A i \in Workers :
                  pages[i] # NoPage => Join(OEBPS, chapters[i].Filename) \in DOMAIN files)
    /\ [][Failed # {} => DOMAIN files \subseteq DOMAIN files']_vars

\* Run returned the error of the first chapter; the page of another chapter is
\* on disk and nothing of the packager is
C24_ReturnedWithFilesLeft ==
    /\ mainpc = "returned"
    /\ 1 \in Failed
    /\ ret = firstError
    /\ \E j \in Workers : pages[j] # NoPage /\ Join(OEBPS, chapters[j].Filename) \in DOMAIN files
    /\ PackagerOutputs \cap DOMAIN files = {}

\* C23: the packager never overwrites a file written by a chapter worker: once
\* the layout is written, the file every chapter's manifest href names is
\* still the page that chapter's worker wrote
C23_PackagerKeepsWorkerFiles ==
    mainpc \in {"metadata", "zip"} =>
        \A i \in Workers :
            /\ Join(OEBPS, chapters[i].Filename) \in DOMAIN files
            /\ files[Join(OEBPS, chapters[i].Filename)].kind = "chapter"

\* C22: image writes are schedule-independent: when downloadChapters is over,
\* the bytes stored at OEBPS/Images/<filename> are the bytes of every image
\* reference that maps to that path and that the site answers with a 2xx
\* response, whichever worker checked, skipped or wrote first
C22_ImageBytesScheduleIndependent ==
    PoolReturned =>
        \A i \in Workers : \A m \in DOMAIN chapters[i].Images :
            LET url == resolveImageURL(chapters[i], chapters[i].Images[m])
                path == Join(ImagesDir, FilenameFromURL(url))
            IN  (/\ url # Empty
                 /\ FilenameFromURL(url) # Empty
                 /\ path \in DOMAIN files
                 /\ files[path].kind = "image"
                 /\ ~Get(book.web, url).err
                 /\ IsSuccess(Get(book.web, url)))
                    => files[path].data = Get(book.web, url).payload.bytes

\* the names of the entries of an archive
EntryNames(a) == {a[k].name : k \in DOMAIN a}

\* C26: packaging is repeatable: a run that finds the .epub of an earlier run
\* of the same book in the book directory produces an archive with the same
\* set of entries as that one, and the .epub itself is no entry of it
C26_RerunSameEntries ==
    [][(/\ mainpc = "zip"
        /\ mainpc' = "returned"
        /\ ret' = NoError
        /\ EpubPath \in DOMAIN files)
          => /\ EntryNames(archive') = EntryNames(files[EpubPath].data)
             /\ EpubPath \notin EntryNames(archive')]_vars

\* downloadChapters has returned, every worker has held a permit (its chapter
\* was requested) and has finished, and every permit is back
PoolDrained ==
    /\ PoolReturned
    /\ sem = 0
    /\ wg = 0
    /\ \A i \in Workers : pc[i] = "done" /\ fetches[i] = 1

\* C25: downloadChapters always terminates without deadlock: for 0 chapters,
\* fewer than 5 and more than 5, and any mix of successes and failures, the
\* orchestrator that waits eventually returns, and by then every worker has
\* acquired a permit and released it, also when its chapter failed
C25_PoolTerminates == (mainpc = "wait") ~> PoolDrained

\* the pool of a book of more chapters than permits has drained and Run is
\* about to package
C25_PoolDrained ==
    /\ mainpc = "cover"
    /\ Len(chapters) > maxWorkers
    /\ sem = 0
    /\ wg = 0
    /\ \A i \in Workers : pc[i] = "done"

\* C21: LoadCookies returns the members of a non-empty flat object of strings as
\* the map; for a J2Team export with a non-empty cookies array it returns a map
\* whose names are the names of the cookies, each with the value of a cookie of
\* that name; for {} and for content that is not JSON it returns an error and no
\* map; it never returns an empty map without an error
C21_LoadCookiesDetectsFormat ==
    cookies # NotLoaded =>
        /\ (cookiesFile \in FlatFiles /\ DOMAIN cookiesFile.members # {}) =>
              /\ cookies.err = ""
              /\ cookies.cookies = [key \in DOMAIN cookiesFile.members |-> cookiesFile.members[key].s]
        /\ cookiesFile \in J2TeamExports =>
              LET list == cookiesFile.members["cookies"].elems
              IN  /\ cookies.err = ""
                  /\ DOMAIN cookies.cookies = {list[k].members["name"].s : k \in DOMAIN list}
                  /\ \A n \in DOMAIN cookies.cookies :
                        \E k \in DOMAIN list :
                            /\ list[k].members["name"].s = n
                            /\ list[k].members["value"].s = cookies.cookies[n]
                  /\ Cardinality(DOMAIN cookies.cookies) = Len(list) =>
                        \A k \in DOMAIN list :
                            cookies.cookies[list[k].members["name"].s] = list[k].members["value"].s
        /\ cookiesFile \in {JObject(<<>>), NotJSON} => cookies.err # "" /\ cookies.cookies = <<>>
        /\ cookies.err = "" => DOMAIN cookies.cookies # {}
        /\ cookies.err # "" => cookies.cookies = <<>>

\* a J2Team export of two cookies loaded as a map of two names
C21_J2TeamExportLoaded ==
    /\ cookiesFile \in J2TeamExports
    /\ cookies.err = ""
    /\ Cardinality(DOMAIN cookies.cookies) = 2

\* the link-rewrite rule on a trimmed value: unchanged when empty, a mailto link
\* or an absolute URL; Images/<basename> for a relative image-like value, itself
\* when it has no basename; every .html replaced otherwise
LinkRule(L) ==
    IF L = Empty \/ HasPrefix(L, "mailto:") THEN L
    ELSE IF IsAbsoluteURL(L) THEN L
    ELSE IF \/ Range(ToLower(L)) \cap {"cover", "images", "graphics"} # {}
            \/ HasSuffix(ToLower(L), ".jpg") \/ HasSuffix(ToLower(L), ".jpeg")
            \/ HasSuffix(ToLower(L), ".png") \/ HasSuffix(ToLower(L), ".gif")
            \/ HasSuffix(ToLower(L), ".webp") \/ HasSuffix(ToLower(L), ".svg")
         THEN IF BaseName(L) = Empty THEN L ELSE <<"Images", "/">> \o BaseName(L)
         ELSE ReplaceAll(L, ".html", ".xhtml")

\* C28: every attribute value of an emitted page is the link-rewrite rule applied
\* to the trimmed value of the downloaded page
C28_LinkRewriteRule ==
    \A i \in Workers : pages[i] # NoPage =>
        \A k \in DOMAIN pages[i].attrs :
            pages[i].attrs[k] = LinkRule(TrimSpace(chapters[i].Content.body.attrs[k]))

\* the first call that registered url
FirstCall(url) == Min({j \in DOMAIN calls : calls[j].url = url})

\* the distinct URLs registered before call k
DistinctBefore(k) == {calls[j].url : j \in 1..(k - 1)}

\* C27: on one registry, a call with the k-th distinct URL returns k-1 and a call
\* with a URL registered before returns the index of its first registration; the
\* list holds each registered URL once, in the order of first registration, and a
\* call never removes or moves an entry
C27_RegistryIndices ==
    /\ [](/\ \A k \in DOMAIN calls :
               /\ calls[k].idx = Cardinality(DistinctBefore(FirstCall(calls[k].url)))
               /\ calls[k].idx + 1 \in DOMAIN parser.cssList
               /\ parser.cssList[calls[k].idx + 1] = calls[k].url
          /\ Range(parser.cssList) = {calls[k].url : k \in DOMAIN calls}
          /\ Len(parser.cssList) = Cardinality(Range(parser.cssList))
          /\ \A a, b \in DOMAIN parser.cssList :
               a < b => FirstCall(parser.cssList[a]) < FirstCall(parser.cssList[b]))
    /\ [][/\ Len(parser.cssList) <= Len(parser'.cssList)
          /\ SubSeq(parser'.cssList, 1, Len(parser.cssList)) = parser.cssList]_vars

\* the registrations A, B, A, C returned 0, 1, 0, 2
C27_RegisteredABAC ==
    /\ Len(calls) = 4
    /\ [k \in 1..4 |-> calls[k].url] = <<Sheet("a"), Sheet("b"), Sheet("a"), Sheet("c")>>
    /\ [k \in 1..4 |-> calls[k].idx] = <<0, 1, 0, 2>>

SanitizedTitle ==
    IF EscapeDirname(book.Title) = Empty THEN <<book.bookID>> ELSE EscapeDirname(book.Title)

\* the directories of the layout exist and the book directory is named
LayoutReady == {OEBPS, StylesDir, ImagesDir} \subseteq dirs /\ bookPath # Empty

\* C20, as stated: the book directory is named '<sanitize(title)> (<bookID>)',
\* the book ID standing in for an empty title, and OEBPS, OEBPS/Styles and
\* OEBPS/Images exist before any chapter worker starts
C20_DirNamedBySanitizedTitle ==
    /\ bookPath # Empty => bookPath = SanitizedTitle \o <<" (", book.bookID, ")">>
    /\ Workers # {} => LayoutReady

\* C20, amended: the book directory is named '<t> (<bookID>)' where t is the
\* part of the sanitized title before its first comma, and OEBPS, OEBPS/Styles
\* and OEBPS/Images exist before any chapter worker starts
C20_DirNamedUpToComma ==
    /\ bookPath # Empty =>
          \E n \in 0..Len(SanitizedTitle) :
              /\ "," \notin Range(SubSeq(SanitizedTitle, 1, n))
              /\ n < Len(SanitizedTitle) => SanitizedTitle[n + 1] = ","
              /\ bookPath = SubSeq(SanitizedTitle, 1, n) \o <<" (", book.bookID, ")">>
    /\ Workers # {} => LayoutReady

\* the workers of a book run whose title was cut at its colon and has a comma
\* before the cut, so that the directory name stops at the comma
C20_CutTitle ==
    /\ Workers # {}
    /\ Index(book.Title, ":") > ColonLimit
    /\ Contains(SanitizedTitle, ",")
    /\ bookPath # SanitizedTitle \o <<" (", book.bookID, ")">>

\* C30: directory-name sanitization is idempotent: sanitizing the sanitized
\* title gives the sanitized title again, and the sanitized title has neither a
\* forbidden character nor more characters than the title
C30_SanitizeIdempotent ==
    /\ EscapeDirname(EscapeDirname(book.Title)) = EscapeDirname(book.Title)
    /\ Range(EscapeDirname(book.Title)) \cap Forbidden = {}
    /\ Len(EscapeDirname(book.Title)) <= Len(book.Title)

\* the directory of a book whose title was cut at a colon past the limit, with
\* a forbidden character after the colon
C30_CutTitleSanitized ==
    /\ bookPath # Empty
    /\ Index(book.Title, ":") > ColonLimit
    /\ book.Title[Len(book.Title)] = "/"
    /\ Len(EscapeDirname(book.Title)) < Len(book.Title) - 1

(***************************************************************************)
(* Properties of GetBookChapters                                           *)
(***************************************************************************)
PageCount == Len(book.results)

\* the chapters on the pages before page n
RECURSIVE Offset(_)
Offset(n) == IF n = 1 THEN 0 ELSE Offset(n - 1) + Len(book.results[n - 1])

EmptyPages == {n \in 1..PageCount : book.results[n] = <<>>}

\* the last page points to a page that cannot be read, or there is no page 1
BadEnding == PageCount = 0 \/ book.ending \in {"err", "status", "malformed", "missing"}

\* the requests for the pages 1..n, after the probe of the session
PageRequests(n) == <<profileURL>> \o [k \in 1..n |-> ChapterPageURL(k)]

\* the returned list is the pages' chapters, page after page
PagesInOrder ==
    /\ Len(chapters) = Offset(PageCount + 1)
    /\ \A n \in 1..PageCount :
          {chapters[Offset(n) + j].ID : j \in 1..Len(book.results[n])}
              = {book.results[n][j].ID : j \in 1..Len(book.results[n])}

\* C12, as stated: page 1 is requested, then each page's next cursor, one
\* request per page, until a page whose next is null or empty, and the pages'
\* chapters are returned in page order; an empty first page or a page that is
\* not a well-formed 2xx answer gives an error and no chapter list
C12_WalksToTheLastPage ==
    mainpc = "returned" =>
        IF PageCount > 0 /\ book.results[1] = <<>>
        THEN apiLog = PageRequests(1) /\ ret # NoError /\ chapters = <<>>
        ELSE IF BadEnding
        THEN apiLog = PageRequests(PageCount + 1) /\ ret # NoError /\ chapters = <<>>
        ELSE apiLog = PageRequests(PageCount) /\ ret = NoError /\ PagesInOrder

\* C12, amended: the same, where an empty page anywhere (not only the first)
\* ends the walk at that page with an error and no chapter list
C12_WalksToTheLastPageOrEmptyPage ==
    mainpc = "returned" =>
        IF EmptyPages # {}
        THEN apiLog = PageRequests(Min(EmptyPages)) /\ ret # NoError /\ chapters = <<>>
        ELSE IF BadEnding
        THEN apiLog = PageRequests(PageCount + 1) /\ ret # NoError /\ chapters = <<>>
        ELSE apiLog = PageRequests(PageCount) /\ ret = NoError /\ PagesInOrder

\* an index of two pages was walked to its end, the last next being ""
C12_TwoPagesWalked ==
    /\ mainpc = "returned"
    /\ ret = NoError
    /\ PageCount = 2
    /\ book.ending = "empty"
    /\ apiLog = <<profileURL, ChapterPageURL(1), ChapterPageURL(2)>>
    /\ Len(chapters) = 4

\* a chapter whose title or filename contains cover in some letter case
IsCoverKind(chapter) == chapter.Title = <<"The", "Cover">> \/ chapter.Filename = <<"COVER", ".html">>

\* C13: the returned list is, page by page, a stable partition of the page:
\* its block holds exactly the chapters of the page, the cover chapters before
\* the others, and two chapters of the same class in their original order
C13_StablePartitionPerPage ==
    (mainpc = "returned" /\ ret = NoError) =>
        /\ PagesInOrder
        /\ \A n \in 1..PageCount :
              \A j \in 1..Len(book.results[n]) : \A k \in 1..Len(book.results[n]) :
                  j < k =>
                      LET a == chapters[Offset(n) + j]
                          b == chapters[Offset(n) + k]
                      IN  \/ IsCoverKind(a) /\ ~IsCoverKind(b)
                          \/ (IsCoverKind(a) <=> IsCoverKind(b)) /\ a.ID < b.ID

\* the pages [a, b(cover)] and [c(cover), d] were returned as b, a, c, d
C13_TwoPagesPromoted ==
    /\ mainpc = "returned"
    /\ ret = NoError
    /\ PageCount = 2
    /\ Len(chapters) = 4
    /\ [k \in 1..4 |-> chapters[k].ID] = <<2, 1, 3, 4>>
    /\ IsCoverKind(chapters[1])
    /\ IsCoverKind(chapters[3])

====
